---------------------------- MODULE Spec2Model ----------------------------
(***************************************************************************)
(* A model of the question-answering front end: the text-to-SQL repair     *)
(* loop (NL2SQL/dbshow.py), intent recognition and the tool agent          *)
(* (apiagent/), the tool services (apiagent/APIServices.py) and the two    *)
(* HTTP handlers (main.py, app.py).                                        *)
(*                                                                         *)
(* Python values are modelled as follows.  A local variable that has not   *)
(* been assigned holds UNBOUND; reading it raises UnboundLocalError.  A    *)
(* text is a sequence of one-character strings, so that substring tests,   *)
(* slices and regular expressions are computed and not assumed.            *)
(***************************************************************************)
EXTENDS Integers, Sequences, FiniteSets, TLC

VARIABLES
    cdb,        \* the invocation of chatdb: its inputs, locals and outcome
    svc,        \* the last call of a tool service operation
    exam,       \* the POST /api/exam request being handled (app.py)
    rec,        \* the call of the intent recognizer
    agent,      \* the call of a ToolAgent operation
    qry,        \* the POST /api/query request being handled (main.py)
    unit,       \* the call of one function on its own
    srv         \* the server of main.py: its globals and the requests in flight

vars == <<cdb, svc, exam, rec, agent, qry, unit, srv>>

(***************************************************************************)
(* Bounds of the model.                                                    *)
(***************************************************************************)
MaxScript == 3      \* attempts the environment has outcomes ready for
MaxDocs == 6        \* documents the retriever recalls for one query
MaxScore == 2       \* the cross-encoder scores are 0..MaxScore
MaxRequests == 2     \* the requests that main.py handles at the same time

(***************************************************************************)
(* Texts.                                                                  *)
(***************************************************************************)
IsSpace(c) == c \in {" ", "\n"}

RECURSIVE LStrip(_)
LStrip(s) == IF s # <<>> /\ IsSpace(Head(s)) THEN LStrip(Tail(s)) ELSE s

RECURSIVE RStrip(_)
RStrip(s) ==
    IF s # <<>> /\ IsSpace(s[Len(s)]) THEN RStrip(SubSeq(s, 1, Len(s) - 1)) ELSE s

\* str.strip()
Strip(s) == RStrip(LStrip(s))

\* Whether text p occurs in text s at position i.
OccursAt(s, p, i) ==
    /\ i >= 1
    /\ i + Len(p) - 1 <= Len(s)
    /\ \A k \in 1..Len(p) : s[i + k - 1] = p[k]

\* p in s
Contains(s, p) == \E i \in 1..(Len(s) + 1) : OccursAt(s, p, i)

\* s.find(p) counted from 1: the first position of p in s at or after from,
\* 0 when there is none.
FindFrom(s, p, from) ==
    LET hits == {i \in from..(Len(s) + 1) : OccursAt(s, p, i)}
    IN  IF hits = {} THEN 0 ELSE CHOOSE i \in hits : \A j \in hits : i <= j

\* s[from:to] with both ends counted from 1 and included; empty when from > to.
Slice(s, from, to) ==
    IF from > to THEN <<>> ELSE SubSeq(s, from, to)

IsDigit(c) == c \in {"0", "1", "2", "3", "4", "5", "6", "7", "8", "9"}

\* The end of the longest run of digits that starts at i (i - 1 when s[i] is
\* no digit).
RECURSIVE DigitsEnd(_, _)
DigitsEnd(s, i) ==
    IF i <= Len(s) /\ IsDigit(s[i]) THEN DigitsEnd(s, i + 1) ELSE i - 1

RECURSIVE SkipSpace(_, _)
SkipSpace(s, i) ==
    IF i <= Len(s) /\ IsSpace(s[i]) THEN SkipSpace(s, i + 1) ELSE i


(***************************************************************************)
(* Regular expressions.  A pattern is a sequence of items [cls, min, max]: *)
(* between min and max characters of class cls, as many as possible first  *)
(* (Python's greedy quantifiers, with backtracking).  A class is the name  *)
(* of a character set or a character standing for itself; max = 0 stands  *)
(* for no upper limit.                                                     *)
(***************************************************************************)
InClass(c, cls) ==
    LET UpperLetters ==
            {"A", "B", "C", "D", "E", "F", "G", "H", "I", "J", "K", "L", "M", "N", "O",
             "P", "Q", "R", "S", "T", "U", "V", "W", "X", "Y", "Z"}
    IN
    CASE cls = "\\d" -> IsDigit(c)
      [] cls = "\\s" -> IsSpace(c)
      [] cls = "[A-Z]" -> c \in UpperLetters
      [] cls = "[A-D]" -> c \in {"A", "B", "C", "D"}
      [] cls = "[+\\-*/^]" -> c \in {"+", "-", "*", "/", "^"}
      [] cls = "[\\d+\\-*/().^]" -> IsDigit(c) \/ c \in {"+", "-", "*", "/", "(", ")", ".", "^"}
      [] cls = "[0-9+\\-*/().,sqrtpowlogsincostan]" ->
            IsDigit(c) \/ c \in {"+", "-", "*", "/", "(", ")", ".", ",", "s", "q", "r",
                                 "t", "p", "o", "w", "l", "g", "i", "n", "c", "a"}
      [] cls = "[mM]" -> c \in {"m", "M"}
      [] cls = "[oO]" -> c \in {"o", "O"}
      [] cls = "[rR]" -> c \in {"r", "R"}
      [] cls = "[dD]" -> c \in {"d", "D"}
      [] OTHER -> c = cls

One(cls) == [cls |-> cls, min |-> 1, max |-> 1]
Times(cls, n) == [cls |-> cls, min |-> n, max |-> n]
Plus(cls) == [cls |-> cls, min |-> 1, max |-> 0]
Star(cls) == [cls |-> cls, min |-> 0, max |-> 0]

\* The literal text p as a pattern.
Lit(p) == [i \in 1..Len(p) |-> One(p[i])]

RECURSIVE RunEnd(_, _, _, _)
RunEnd(s, i, cls, left) ==
    IF left > 0 /\ i <= Len(s) /\ InClass(s[i], cls)
    THEN RunEnd(s, i + 1, cls, left - 1) ELSE i - 1

\* The position after the match of items k.. of pattern at position i of s,
\* 0 when there is no match.
RECURSIVE MatchFrom(_, _, _, _), MatchCount(_, _, _, _, _)
MatchFrom(s, i, pattern, k) ==
    IF k > Len(pattern) THEN i
    ELSE LET limit == IF pattern[k].max = 0 THEN Len(s) ELSE pattern[k].max
             longest == RunEnd(s, i, pattern[k].cls, limit) - i + 1
         IN  IF longest < pattern[k].min THEN 0
             ELSE MatchCount(s, i, pattern, k, longest)

MatchCount(s, i, pattern, k, count) ==
    LET rest == MatchFrom(s, i + count, pattern, k + 1)
    IN  IF rest # 0 THEN rest
        ELSE IF count > pattern[k].min THEN MatchCount(s, i, pattern, k, count - 1)
        ELSE 0

\* The first alternative of alts that matches at position i: [from, next],
\* next = 0 when none does.
RECURSIVE MatchAlts(_, _, _, _)
MatchAlts(s, i, alts, a) ==
    IF a > Len(alts) THEN [from |-> i, next |-> 0]
    ELSE LET next == MatchFrom(s, i, alts[a], 1)
         IN  IF next # 0 THEN [from |-> i, next |-> next]
             ELSE MatchAlts(s, i, alts, a + 1)

\* re.search of the alternation alts in s: the leftmost match, [from, next];
\* next = 0 when there is none.
RECURSIVE SearchFrom(_, _, _)
SearchFrom(s, alts, i) ==
    IF i > Len(s) + 1 THEN [from |-> 0, next |-> 0]
    ELSE LET m == MatchAlts(s, i, alts, 1)
         IN  IF m.next # 0 THEN m ELSE SearchFrom(s, alts, i + 1)

Search(s, alts) == SearchFrom(s, alts, 1)

Found(m) == m.next # 0

\* match.group() of a match found.
Group(s, m) == Slice(s, m.from, m.next - 1)

\* s.replace(old, new), for a non-empty old.
RECURSIVE Replace(_, _, _)
Replace(s, old, new) ==
    LET at == FindFrom(s, old, 1)
    IN  IF at = 0 THEN s
        ELSE Slice(s, 1, at - 1) \o new
             \o Replace(Slice(s, at + Len(old), Len(s)), old, new)

(***************************************************************************)
(* Python values: None, str, numbers, bool, dict (its items in insertion   *)
(* order) and list.  Every value has the same shape, [t, s, items]: t is   *)
(* the type, s the text of a str or the literal of a number, items the     *)
(* (key, value) pairs of a dict or the elements of a list (under key <<>>).*)
(***************************************************************************)
PyNone == [t |-> "none", s |-> <<>>, items |-> <<>>]
PyStr(s) == [t |-> "str", s |-> s, items |-> <<>>]
PyNum(s) == [t |-> "num", s |-> s, items |-> <<>>]
PyBool(b) == [t |-> "bool", s |-> IF b THEN <<"1">> ELSE <<"0">>, items |-> <<>>]
PyDict(items) == [t |-> "dict", s |-> <<>>, items |-> items]
PyList(items) == [t |-> "list", s |-> <<>>, items |-> items]
Item(k, v) == [k |-> k, v |-> v]

Truthy(value) ==
    LET \* bool(value)
        IsZeroLiteral(s) == \A i \in 1..Len(s) : s[i] \in {"0", ".", "-"}
    IN
    CASE value.t = "none" -> FALSE
      [] value.t = "str" -> value.s # <<>>
      [] value.t = "num" -> ~IsZeroLiteral(value.s)
      [] value.t = "bool" -> value.s = <<"1">>
      [] OTHER -> value.items # <<>>

HasKey(d, k) == \E i \in 1..Len(d.items) : d.items[i].k = k

\* d[k] of a dict that has the key.
DictGet(d, k) == d.items[CHOOSE i \in 1..Len(d.items) : d.items[i].k = k].v

\* d.get(k, default)
DictGetOr(d, k, default) == IF HasKey(d, k) THEN DictGet(d, k) ELSE default

\* d[k] = v: a new key goes last, an old one keeps its place.
DictSet(d, k, v) ==
    IF HasKey(d, k)
    THEN PyDict([i \in 1..Len(d.items) |->
                    IF d.items[i].k = k THEN Item(k, v) ELSE d.items[i]])
    ELSE PyDict(Append(d.items, Item(k, v)))

\* Whether `k in value` is defined (it raises TypeError on None, numbers, bool).
InDefined(value) == value.t \in {"dict", "list", "str"}

\* k in value, for a text k.
In(k, value) ==
    CASE value.t = "dict" -> HasKey(value, k)
      [] value.t = "list" -> \E i \in 1..Len(value.items) : value.items[i].v = PyStr(k)
      [] value.t = "str" -> Contains(value.s, k)
      [] OTHER -> FALSE

\* float(text), kept as the literal Python shows for it: no leading zeros, at
\* least one fraction digit, no trailing zeros in the fraction.
RECURSIVE DropLeadingZeros(_)
DropLeadingZeros(s) ==
    IF Len(s) > 1 /\ Head(s) = "0" THEN DropLeadingZeros(Tail(s)) ELSE s

RECURSIVE DropTrailingZeros(_)
DropTrailingZeros(s) ==
    IF Len(s) > 1 /\ s[Len(s)] = "0"
    THEN DropTrailingZeros(SubSeq(s, 1, Len(s) - 1)) ELSE s

Float(s) ==
    LET dot == FindFrom(s, <<".">>, 1)
        int == IF dot = 0 THEN s ELSE Slice(s, 1, dot - 1)
        frac == IF dot = 0 THEN <<"0">> ELSE Slice(s, dot + 1, Len(s))
    IN  PyNum(DropLeadingZeros(int) \o <<".">> \o DropTrailingZeros(frac))

(***************************************************************************)
(* json.loads, on the JSON of objects, arrays, strings without escapes,    *)
(* unsigned numbers, null, true and false.  A parse yields [ok, val, next]:*)
(* next is the position after the value.                                   *)
(***************************************************************************)
ParseFail == [ok |-> FALSE, val |-> PyNone, next |-> 0]
Parsed(val, next) == [ok |-> TRUE, val |-> val, next |-> next]

ParseString(s, i) ==
    LET close == FindFrom(s, <<"\"">>, i + 1)
    IN  IF i > Len(s) \/ s[i] # "\"" \/ close = 0 THEN ParseFail
        ELSE IF \E k \in (i + 1)..(close - 1) : s[k] \in {"\\", "\n"} THEN ParseFail
        ELSE Parsed(PyStr(Slice(s, i + 1, close - 1)), close + 1)

RECURSIVE ParseValue(_, _), ParseMembers(_, _, _), ParseElements(_, _, _)

\* The members of an object from position i on, d holding those already read.
ParseMembers(s, i, d) ==
    LET key == ParseString(s, i)
        colon == SkipSpace(s, key.next)
    IN  IF ~key.ok \/ colon > Len(s) \/ s[colon] # ":" THEN ParseFail
        ELSE
        LET value == ParseValue(s, SkipSpace(s, colon + 1))
            after == SkipSpace(s, value.next)
            read == DictSet(d, key.val.s, value.val)
        IN  IF ~value.ok \/ after > Len(s) THEN ParseFail
            ELSE IF s[after] = "}" THEN Parsed(read, after + 1)
            ELSE IF s[after] = "," THEN ParseMembers(s, SkipSpace(s, after + 1), read)
            ELSE ParseFail

\* The elements of an array from position i on, l holding those already read.
ParseElements(s, i, l) ==
    LET value == ParseValue(s, i)
        after == SkipSpace(s, value.next)
        read == PyList(Append(l.items, Item(<<>>, value.val)))
    IN  IF ~value.ok \/ after > Len(s) THEN ParseFail
        ELSE IF s[after] = "]" THEN Parsed(read, after + 1)
        ELSE IF s[after] = "," THEN ParseElements(s, SkipSpace(s, after + 1), read)
        ELSE ParseFail

ParseValue(s, i) ==
    LET ParseNumber ==
            LET intEnd == IF s[i] = "0" THEN i ELSE DigitsEnd(s, i)
                fracEnd == IF intEnd + 1 <= Len(s) /\ s[intEnd + 1] = "."
                           THEN DigitsEnd(s, intEnd + 2) ELSE intEnd
                end == IF fracEnd >= intEnd + 2 THEN fracEnd ELSE intEnd
            IN  Parsed(IF end > intEnd THEN Float(Slice(s, i, end))
                       ELSE PyNum(Slice(s, i, end)), end + 1)
    IN
    IF i > Len(s) THEN ParseFail
    ELSE IF s[i] = "{"
    THEN LET first == SkipSpace(s, i + 1)
         IN  IF first <= Len(s) /\ s[first] = "}" THEN Parsed(PyDict(<<>>), first + 1)
             ELSE ParseMembers(s, first, PyDict(<<>>))
    ELSE IF s[i] = "["
    THEN LET first == SkipSpace(s, i + 1)
         IN  IF first <= Len(s) /\ s[first] = "]" THEN Parsed(PyList(<<>>), first + 1)
             ELSE ParseElements(s, first, PyList(<<>>))
    ELSE IF s[i] = "\"" THEN ParseString(s, i)
    ELSE IF IsDigit(s[i]) THEN ParseNumber
    ELSE IF OccursAt(s, <<"n", "u", "l", "l">>, i) THEN Parsed(PyNone, i + 4)
    ELSE IF OccursAt(s, <<"t", "r", "u", "e">>, i) THEN Parsed(PyBool(TRUE), i + 4)
    ELSE IF OccursAt(s, <<"f", "a", "l", "s", "e">>, i) THEN Parsed(PyBool(FALSE), i + 5)
    ELSE ParseFail

\* json.loads(s): ok is FALSE where it raises json.JSONDecodeError.
json_loads(s) ==
    LET value == ParseValue(s, SkipSpace(s, 1))
    IN  IF value.ok /\ SkipSpace(s, value.next) > Len(s) THEN value ELSE ParseFail


(***************************************************************************)
(* str(), repr() and json.dumps(ensure_ascii=False) of a value.  The texts *)
(* of the model hold no quote and no backslash, so no escape is needed.    *)
(***************************************************************************)
RECURSIVE Repr(_), ReprItems(_, _, _)
ReprItems(items, i, keyed) ==
    IF i > Len(items) THEN <<>>
    ELSE (IF i > 1 THEN <<",", " ">> ELSE <<>>)
         \o (IF keyed THEN <<"'">> \o items[i].k \o <<"'", ":", " ">> ELSE <<>>)
         \o Repr(items[i].v) \o ReprItems(items, i + 1, keyed)

Repr(value) ==
    CASE value.t = "none" -> <<"N", "o", "n", "e">>
      [] value.t = "str" -> <<"'">> \o value.s \o <<"'">>
      [] value.t = "num" -> value.s
      [] value.t = "bool" -> IF value.s = <<"1">> THEN <<"T", "r", "u", "e">>
                             ELSE <<"F", "a", "l", "s", "e">>
      [] value.t = "dict" -> <<"{">> \o ReprItems(value.items, 1, TRUE) \o <<"}">>
      [] OTHER -> <<"[">> \o ReprItems(value.items, 1, FALSE) \o <<"]">>

\* str(value), as an f-string formats it.
Str(value) == IF value.t = "str" THEN value.s ELSE Repr(value)

RECURSIVE json_dumps(_), DumpItems(_, _, _)
DumpItems(items, i, keyed) ==
    IF i > Len(items) THEN <<>>
    ELSE (IF i > 1 THEN <<",", " ">> ELSE <<>>)
         \o (IF keyed THEN <<"\"">> \o items[i].k \o <<"\"", ":", " ">> ELSE <<>>)
         \o json_dumps(items[i].v) \o DumpItems(items, i + 1, keyed)

json_dumps(value) ==
    CASE value.t = "none" -> <<"n", "u", "l", "l">>
      [] value.t = "str" -> <<"\"">> \o value.s \o <<"\"">>
      [] value.t = "num" -> value.s
      [] value.t = "bool" -> IF value.s = <<"1">> THEN <<"t", "r", "u", "e">>
                             ELSE <<"f", "a", "l", "s", "e">>
      [] value.t = "dict" -> <<"{">> \o DumpItems(value.items, 1, TRUE) \o <<"}">>
      [] OTHER -> <<"[">> \o DumpItems(value.items, 1, FALSE) \o <<"]">>

\* value == text, for a str literal of the code.
IsStr(value, text) == value.t = "str" /\ value.s = text

\* Whether hash(value) is defined: a set or dict lookup of a dict or a list
\* raises TypeError.
Hashable(value) == value.t \notin {"dict", "list"}
(***************************************************************************)
(* NL2SQL/dbshow.py                                                        *)
(***************************************************************************)
UNBOUND == "<unbound>"

max_tokens == 8192
StateBound == 5
StateDone == 100

RECURSIVE SeqsUpTo(_, _)
SeqsUpTo(S, n) ==
    IF n = 0 THEN {<<>>}
    ELSE LET shorter == SeqsUpTo(S, n - 1)
         IN shorter \cup {Append(s, x) : s \in {t \in shorter : Len(t) = n - 1}, x \in S}

Scripts ==
    LET \* What the environment does on one attempt of the loop body: the LLM request
        \* raises; the reply holds no ```sql block; the extracted SQL fails to execute;
        \* the SQL executes.  tokens is response.usage.total_tokens.
        AttemptOutcomes ==
            {[kind |-> "llm_error", tokens |-> 0]}
            \cup [kind : {"no_sql", "sql_error", "sql_ok"}, tokens : {4096, max_tokens}]
    IN
           SeqsUpTo(AttemptOutcomes, MaxScript)

\* The locals of chatdb on entry: the parameters are bound, every name the
\* function assigns is local and unbound (syspromt and today included, although
\* the module has a global syspromt).
ChatdbEntry(question, script) ==
    [pc |-> "running", question |-> question, script |-> script,
     usetokens |-> 0, state |-> 0, think |-> UNBOUND,
     syspromt |-> UNBOUND, today |-> UNBOUND, llmsql |-> UNBOUND,
     e |-> UNBOUND, result |-> UNBOUND,
     messages |-> <<>>,
     requests |-> <<>>,     \* the conversation sent with each LLM request
     executed |-> <<>>,     \* the SQL handed to pd.read_sql, in order
     attempts |-> <<>>,     \* per attempt: how it ended
     outcome |-> "none", exc |-> "none", ret |-> <<>>]

Raise(L, exception) ==
    [L EXCEPT !.pc = "done", !.outcome = "raise", !.exc = exception]

\* Line 50: the right-hand side is evaluated first, and it reads the locals
\* syspromt and today.
Line50(L) ==
    IF L.syspromt = UNBOUND \/ L.today = UNBOUND
    THEN Raise(L, "UnboundLocalError")
    ELSE [L EXCEPT !.usetokens = 0, !.state = 1, !.think = "",
                   !.syspromt = "formatted"]

\* Lines 63-69: the handler.  It reads llmsql; at its end Python unbinds e.
Handler(L, err) ==
    IF L.llmsql = UNBOUND
    THEN Raise([L EXCEPT !.attempts = Append(@, "handler_raised")],
               "UnboundLocalError")
    ELSE [L EXCEPT !.messages = @ \o
                       << [role |-> "assistant", content |-> <<L.llmsql>>],
                          [role |-> "user",
                           content |-> <<"sql_error_feedback", err>>] >>,
                   !.state = @ + 1,
                   !.e = UNBOUND,
                   !.attempts = Append(@, "failed")]

\* Lines 53-62: one pass of the loop body under outcome o.
Attempt(L, o) ==
    LET L54 == [L EXCEPT !.today = "today",
                         !.requests = Append(@, L.messages)]
    IN  IF o.kind = "llm_error" THEN Handler(L54, "llm_error")
        ELSE
        LET L56 == [L54 EXCEPT !.usetokens = @ + o.tokens]
        IN  IF o.kind = "no_sql" THEN Handler(L56, "IndexError")
            ELSE
            LET L60 == [L56 EXCEPT
                          !.llmsql = "sql",
                          !.think = IF L56.state = 1 THEN "think" ELSE @,
                          !.executed = Append(@, "sql")]
            IN  IF o.kind = "sql_error" THEN Handler(L60, "db_error")
                ELSE [L60 EXCEPT !.result = "rows", !.state = StateDone,
                                 !.attempts = Append(@, "succeeded")]

\* Lines 52-69: the loop, run against the outcomes the environment has ready.
\* A loop that outlives them is left running.
RECURSIVE Loop(_, _)
Loop(L, script) ==
    LET \* Line 52: the loop guard.
        WhileCond(l) == l.usetokens >= max_tokens /\ l.state >= StateBound
    IN
    IF L.pc = "done" \/ ~WhileCond(L) THEN L
    ELSE IF script = <<>> THEN [L EXCEPT !.outcome = "looping"]
    ELSE Loop(Attempt(L, Head(script)), Tail(script))

\* Line 70.
Line70(L) ==
    IF L.pc = "done" \/ L.outcome = "looping" THEN L
    ELSE IF L.state >= StateDone
         THEN IF L.think = UNBOUND \/ L.result = UNBOUND
              THEN Raise(L, "UnboundLocalError")
              ELSE [L EXCEPT !.pc = "done", !.outcome = "return",
                             !.ret = <<L.think, L.result>>]
         ELSE IF L.e = UNBOUND
              THEN Raise(L, "UnboundLocalError")
              ELSE [L EXCEPT !.pc = "done", !.outcome = "return",
                             !.ret = <<"", "sql_generation_failed", L.e>>]

chatdb(question, script) ==
    LET \* Line 51.
        Line51(L) ==
            [L EXCEPT !.messages = << [role |-> "system", content |-> <<L.syspromt>>],
                                      [role |-> "user", content |-> <<L.question>>] >>]
    IN
    LET L50 == Line50(ChatdbEntry(question, script))
    IN  IF L50.pc = "done" THEN L50
        ELSE Line70(Loop(Line51(L50), script))

(***************************************************************************)
(* apiagent/IntentRecognizer.py.  Keys, tool names and questions are texts;*)
(* a Chinese character is written as the one-character string "uXXXX" of   *)
(* its code point; so is the backquote, "u0060".                            *)
(***************************************************************************)
\* The keys of a recognition result and of an error result.
K == [database |-> <<"u6570", "u636e", "u5e93">>,
      dependency |-> <<"u5de5", "u5177", "u4f9d", "u8d56", "u8c03", "u7528">>,
      query_tool |-> <<"u67e5", "u8be2", "u5de5", "u5177">>,
      error |-> <<"e", "r", "r", "o", "r">>]

\* The tool names of api_tools_mapping.
TOOL == [credit_card |-> <<"u4fe1", "u7528", "u5361", "u670d", "u52a1">>,
         exchange_rate |-> <<"u6c47", "u7387", "u670d", "u52a1">>,
         utility_bill |-> <<"u6c34", "u7535", "u7164", "u670d", "u52a1">>,
         user_assets |-> <<"u7528", "u6237", "u8d44", "u4ea7", "u670d", "u52a1">>,
         payment_order |-> <<"u652f", "u4ed8", "u8ba2", "u5355", "u670d", "u52a1">>,
         current_date |-> <<"u83b7", "u53d6", "u5f53", "u524d", "u65e5", "u671f", "u5de5", "u5177">>,
         calculator |-> <<"u8ba1", "u7b97", "u5668", "u5de5", "u5177">>]

\* The parameter names of the tools.
P == [cardNumber |-> <<"c", "a", "r", "d", "N", "u", "m", "b", "e", "r">>,
      month |-> <<"m", "o", "n", "t", "h">>,
      fromCurrency |-> <<"f", "r", "o", "m", "C", "u", "r", "r", "e", "n", "c", "y">>,
      toCurrency |-> <<"t", "o", "C", "u", "r", "r", "e", "n", "c", "y">>,
      amount |-> <<"a", "m", "o", "u", "n", "t">>,
      householdId |-> <<"h", "o", "u", "s", "e", "h", "o", "l", "d", "I", "d">>,
      utilityType |-> <<"u", "t", "i", "l", "i", "t", "y", "T", "y", "p", "e">>,
      customerId |-> <<"c", "u", "s", "t", "o", "m", "e", "r", "I", "d">>,
      assetType |-> <<"a", "s", "s", "e", "t", "T", "y", "p", "e">>,
      merchantId |-> <<"m", "e", "r", "c", "h", "a", "n", "t", "I", "d">>,
      orderId |-> <<"o", "r", "d", "e", "r", "I", "d">>,
      expression |-> <<"e", "x", "p", "r", "e", "s", "s", "i", "o", "n">>]

\* self.database_keywords: 交易流水表, 机构信息表, 商户信息表.
database_keywords ==
    << << <<"u4ea4", "u6613", "u6d41", "u6c34">>,
       <<"u4ea4", "u6613", "u8bb0", "u5f55">>,
       <<"t", "r", "a", "n", "s", "a", "c", "t", "i", "o", "n", "_", "i", "d">>,
       <<"u4ea4", "u6613", "u91d1", "u989d">>,
       <<"u4ea4", "u6613", "u65f6", "u95f4">> >>,
       << <<"u673a", "u6784", "u4fe1", "u606f">>,
       <<"i", "n", "s", "t", "i", "t", "u", "t", "i", "o", "n", "_", "i", "d">>,
       <<"u673a", "u6784", "u540d", "u79f0">>,
       <<"u8bb8", "u53ef", "u8bc1", "u53f7">> >>,
       << <<"u5546", "u6237", "u4fe1", "u606f">>,
       <<"m", "e", "r", "c", "h", "a", "n", "t", "_", "i", "d">>,
       <<"u5546", "u6237", "u540d", "u79f0">>,
       <<"u8425", "u4e1a", "u6267", "u7167">> >> >>

\* self.api_tools_mapping, in the order of the dict.
api_tools_mapping ==
    << [name |-> TOOL.credit_card,
        keywords |-> << <<"u4fe1", "u7528", "u5361">>,
       <<"u8d26", "u5355">>,
       <<"c", "a", "r", "d", "N", "u", "m", "b", "e", "r">>,
       <<"u6708", "u8d26", "u5355">>,
       <<"u4fe1", "u7528", "u5361", "u8d26", "u5355">> >>,
        required_params |-> <<P.cardNumber, P.month>>],
       [name |-> TOOL.exchange_rate,
        keywords |-> << <<"u6c47", "u7387">>,
       <<"u5151", "u6362">>,
       <<"u8d27", "u5e01">>,
       <<"u7b49", "u4e8e", "u591a", "u5c11">>,
       <<"u6362", "u6210">>,
       <<"u4eba", "u6c11", "u5e01">>,
       <<"u7f8e", "u5143">>,
       <<"u65e5", "u5143">>,
       <<"u97e9", "u5143">> >>,
        required_params |-> <<P.fromCurrency, P.toCurrency>>],
       [name |-> TOOL.utility_bill,
        keywords |-> << <<"u6c34", "u7535", "u7164">>,
       <<"u7535", "u8d39">>,
       <<"u6c34", "u8d39">>,
       <<"u7164", "u6c14", "u8d39">>,
       <<"u6237", "u53f7">>,
       <<"h", "o", "u", "s", "e", "h", "o", "l", "d", "I", "d">>,
       <<"u7528", "u7535", "u91cf">>,
       <<"u7528", "u6c34", "u91cf">> >>,
        required_params |-> <<P.householdId, P.month>>],
       [name |-> TOOL.user_assets,
        keywords |-> << <<"u7528", "u6237", "u8d44", "u4ea7">>,
       <<"u8d44", "u4ea7", "u4fe1", "u606f">>,
       <<"c", "u", "s", "t", "o", "m", "e", "r", "I", "d">>,
       <<"u8d44", "u4ea7", "u67e5", "u8be2">> >>,
        required_params |-> <<P.customerId>>],
       [name |-> TOOL.payment_order,
        keywords |-> << <<"u652f", "u4ed8", "u8ba2", "u5355">>,
       <<"u521b", "u5efa", "u8ba2", "u5355">>,
       <<"m", "e", "r", "c", "h", "a", "n", "t", "I", "d">>,
       <<"o", "r", "d", "e", "r", "I", "d">>,
       <<"u652f", "u4ed8">> >>,
        required_params |-> <<P.merchantId, P.orderId>>],
       [name |-> TOOL.current_date,
        keywords |-> << <<"u5f53", "u524d", "u65e5", "u671f">>,
       <<"u73b0", "u5728", "u65f6", "u95f4">>,
       <<"u4eca", "u5929", "u65e5", "u671f">>,
       <<"u73b0", "u5728", "u51e0", "u70b9">>,
       <<"u4eca", "u5929", "u51e0", "u53f7">> >>,
        required_params |-> <<>>],
       [name |-> TOOL.calculator,
        keywords |-> << <<"u8ba1", "u7b97">>,
       <<"u7b49", "u4e8e", "u591a", "u5c11">>,
       <<"u7b97", "u5f0f">>,
       <<"u8868", "u8fbe", "u5f0f">>,
       <<"u7b97", "u4e00", "u4e0b">>,
       <<"u8ba1", "u7b97", "u7ed3", "u679c">> >>,
        required_params |-> <<P.expression>>] >>

\* any(keyword in question for keyword in keywords)
AnyKeywordIn(keywords, question) ==
    \E i \in 1..Len(keywords) : Contains(question, keywords[i])

\* What the clock shows: datetime.now().strftime('%Y-%m'),
\* datetime.now().isoformat(), and the isoformat a day later.
Clock == [month |-> <<"2", "0", "2", "5", "-", "1", "0">>,
          now |-> <<"2", "0", "2", "5", "-", "1", "0", "-", "1", "5", "T", "0", "9", ":", "3", "0", ":", "0", "0", ".", "0", "0", "0", "0", "0", "0">>,
          tomorrow |-> <<"2", "0", "2", "5", "-", "1", "0", "-", "1", "6", "T", "0", "9", ":", "3", "0", ":", "0", "0", ".", "0", "0", "0", "0", "0", "0">>]

\* The patterns of re.search in extract_parameters, by what they look for.
RE == [card |-> << <<Times("\\d", 16)>> >>,
       month |-> << <<One("2"), One("0"), Times("\\d", 2), One("-"), Times("\\d", 2)>> >>,
       number |-> << <<Plus("\\d"), One("."), Plus("\\d")>>, <<Plus("\\d")>> >>,
       household |-> << <<Times("[A-Z]", 2), Plus("\\d")>> >>,
       customer |-> << <<Times("\\d", 18)>>, <<Times("\\d", 15)>> >>,
       merchant |-> << <<One("[mM]"), Plus("\\d")>> >>,
       order |-> << <<One("[oO]"), One("[rR]"), One("[dD]"), Plus("\\d")>> >>,
       yuan_amount |-> << <<Plus("\\d"), One("."), Plus("\\d")>> \o Lit(<<"u5143">>),
                          <<Plus("\\d")>> \o Lit(<<"u5143">>) >>]

\* Lines 76-83: currency_mapping, in the order of the dict.
currency_mapping ==
    << [name |-> <<"u4eba", "u6c11", "u5e01">>, code |-> <<"C", "N", "Y">>], [name |-> <<"u5143">>, code |-> <<"C", "N", "Y">>],
       [name |-> <<"u4eba", "u6c11", "u5e01", "u5143">>, code |-> <<"C", "N", "Y">>],
       [name |-> <<"u7f8e", "u5143">>, code |-> <<"U", "S", "D">>], [name |-> <<"u7f8e", "u91d1">>, code |-> <<"U", "S", "D">>],
       [name |-> <<"u7f8e", "u5706">>, code |-> <<"U", "S", "D">>],
       [name |-> <<"u65e5", "u5143">>, code |-> <<"J", "P", "Y">>], [name |-> <<"u5186">>, code |-> <<"J", "P", "Y">>],
       [name |-> <<"u65e5", "u5706">>, code |-> <<"J", "P", "Y">>],
       [name |-> <<"u97e9", "u5143">>, code |-> <<"K", "R", "W">>], [name |-> <<"u97e9", "u571c">>, code |-> <<"K", "R", "W">>],
       [name |-> <<"u97e9", "u5706">>, code |-> <<"K", "R", "W">>], [name |-> <<"u97e9", "u5e01">>, code |-> <<"K", "R", "W">>],
       [name |-> <<"u6b27", "u5143">>, code |-> <<"E", "U", "R">>], [name |-> <<"u6b27", "u5706">>, code |-> <<"E", "U", "R">>],
       [name |-> <<"u82f1", "u9551">>, code |-> <<"G", "B", "P">>], [name |-> <<"u82f1", "u78c5">>, code |-> <<"G", "B", "P">>] >>

\* Lines 91-96: the currencies named in the question, each with the position
\* of its first occurrence, in the order of currency_mapping.
RECURSIVE FoundCurrencies(_, _)
FoundCurrencies(question, i) ==
    IF i > Len(currency_mapping) THEN <<>>
    ELSE LET c == currency_mapping[i]
             rest == FoundCurrencies(question, i + 1)
         IN  IF Contains(question, c.name)
             THEN <<[pos |-> FindFrom(question, c.name, 1), code |-> c.code,
                     name |-> c.name]>> \o rest
             ELSE rest

\* list.sort(key=lambda x: x[0]): stable.
RECURSIVE SortByPos(_)
SortByPos(found) ==
    IF found = <<>> THEN <<>>
    ELSE LET m == CHOOSE i \in 1..Len(found) :
                      /\ \A j \in 1..Len(found) : found[i].pos <= found[j].pos
                      /\ \A j \in 1..(i - 1) : found[j].pos > found[i].pos
         IN  <<found[m]>>
             \o SortByPos(SubSeq(found, 1, m - 1) \o SubSeq(found, m + 1, Len(found)))

\* m = re.search(pattern, question); if m: params[key] = m.group(1).  The
\* group is the match without its last tail characters; as_float says that
\* the code stores float(m.group(1)).
SetIfFound(params, key, question, pattern, tail, as_float) ==
    LET Set(m) ==
            LET Text(group) == IF as_float THEN Float(group) ELSE PyStr(group)
            IN  IF Found(m)
                THEN DictSet(params, key, Text(Slice(question, m.from, m.next - 1 - tail)))
                ELSE params
    IN  Set(Search(question, pattern))

\* Lines 61-72: the month is the one of the question, else the current one.
ExtractCreditCard(question) ==
    SetIfFound(
        DictSet(SetIfFound(PyDict(<<>>), P.cardNumber, question, RE.card, 0, FALSE),
                P.month, PyStr(Clock.month)),
        P.month, question, RE.month, 0, FALSE)

\* Lines 74-114.
ExtractExchangeRate(question) ==
    LET Currencies(p1, found_currencies) ==
            IF Len(found_currencies) >= 2
            THEN DictSet(DictSet(p1, P.fromCurrency, PyStr(found_currencies[1].code)),
                         P.toCurrency, PyStr(found_currencies[2].code))
            ELSE IF Len(found_currencies) = 1
            THEN DictSet(DictSet(p1, P.fromCurrency, PyStr(found_currencies[1].code)),
                         P.toCurrency, PyStr(<<"C", "N", "Y">>))
            ELSE p1
    IN  Currencies(SetIfFound(PyDict(<<>>), P.amount, question, RE.number, 0, TRUE),
                   SortByPos(FoundCurrencies(question, 1)))

\* Lines 116-137.
ExtractUtilityBill(question) ==
    DictSet(
        SetIfFound(
            DictSet(SetIfFound(PyDict(<<>>), P.householdId, question, RE.household,
                               0, FALSE),
                    P.month, PyStr(Clock.month)),
            P.month, question, RE.month, 0, FALSE),
        P.utilityType,
        IF Contains(question, <<"u7535">>) THEN PyStr(<<"e", "l", "e", "c", "t", "r", "i", "c", "i", "t", "y">>)
        ELSE IF Contains(question, <<"u6c34">>) THEN PyStr(<<"w", "a", "t", "e", "r">>)
        ELSE IF Contains(question, <<"u7164">>) \/ Contains(question, <<"u6c14">>)
        THEN PyStr(<<"g", "a", "s">>)
        ELSE PyStr(<<"e", "l", "e", "c", "t", "r", "i", "c", "i", "t", "y">>))

\* Lines 139-148.
ExtractUserAssets(question) ==
    DictSet(SetIfFound(PyDict(<<>>), P.customerId, question, RE.customer, 0, FALSE),
            P.assetType,
            IF Contains(question, <<"u623f", "u4ea7">>) \/ Contains(question, <<"u623f", "u5b50">>)
            THEN PyStr(<<"h", "o", "u", "s", "e", "h", "o", "l", "d">>) ELSE PyStr(<<"c", "a", "r", "d">>))

\* Lines 150-161: the amount is the number before the character 元.
ExtractPaymentOrder(question) ==
    SetIfFound(
        SetIfFound(
            SetIfFound(PyDict(<<>>), P.merchantId, question, RE.merchant, 0, FALSE),
            P.orderId, question, RE.order, 0, FALSE),
        P.amount, question, RE.yuan_amount, 1, TRUE)

\* math_patterns; operation is the group (?:\s*[+\-*/^]\s*\d+) of the first
\* and of the last pattern.
math_patterns ==
    LET operation == <<Star("\\s"), One("[+\\-*/^]"), Star("\\s"), Plus("\\d")>>
    IN  [operation |-> operation,
         square |-> << <<Plus("\\d"), Star("\\s")>> \o Lit(<<"u7684">>) \o <<Star("\\s")>> \o Lit(<<"u5e73", "u65b9">>) >>,
         cube |-> << <<Plus("\\d"), Star("\\s")>> \o Lit(<<"u7684">>) \o <<Star("\\s")>> \o Lit(<<"u7acb", "u65b9">>) >>,
         simple |-> << <<Plus("\\d")>> \o operation >>]

\* The position after the last of the operations that follow one another from i.
RECURSIVE OperationsEnd(_, _)
OperationsEnd(s, i) ==
    LET next == MatchFrom(s, i, math_patterns.operation, 1)
    IN  IF next = 0 THEN i ELSE OperationsEnd(s, next)

\* re.search(r'(\d+(?:\s*[+\-*/^]\s*\d+)+)', s)
RECURSIVE SearchOperations(_, _)
SearchOperations(s, i) ==
    IF i > Len(s) THEN [from |-> 0, next |-> 0]
    ELSE LET digits == RunEnd(s, i, "\\d", Len(s))
             next == IF digits >= i THEN OperationsEnd(s, digits + 1) ELSE 0
         IN  IF next > digits + 1 THEN [from |-> i, next |-> next]
             ELSE SearchOperations(s, i + 1)

RECURSIVE RemoveSpaces(_)
RemoveSpaces(s) ==
    IF s = <<>> THEN <<>>
    ELSE IF IsSpace(Head(s)) THEN RemoveSpaces(Tail(s))
    ELSE <<Head(s)>> \o RemoveSpaces(Tail(s))

\* Lines 177-183: the expression of a match.
CleanExpression(expr) ==
    RemoveSpaces(Replace(Replace(expr, <<"u7684", "u5e73", "u65b9">>, <<"*", "*", "2">>), <<"u7684", "u7acb", "u65b9">>, <<"*", "*", "3">>))

RECURSIVE RemoveWords(_, _, _)
RemoveWords(s, words, i) ==
    IF i > Len(words) THEN s
    ELSE RemoveWords(Replace(s, words[i], <<>>), words, i + 1)

\* Lines 163-196: the expression is the group of the first of math_patterns
\* that matches, cleaned; else the question without its words, when only
\* digits and operators are left.
ExtractCalculator(question) ==
    LET First(m1, m2, m3, m4) ==
            IF Found(m1) THEN m1 ELSE IF Found(m2) THEN m2
            ELSE IF Found(m3) THEN m3 ELSE m4
        Expression(m, calc_text) ==
            IF Found(m)
            THEN DictSet(PyDict(<<>>), P.expression,
                         PyStr(CleanExpression(Group(question, m))))
            ELSE IF /\ calc_text # <<>>
                    /\ MatchFrom(calc_text, 1, <<Plus("[\\d+\\-*/().^]")>>, 1)
                           = Len(calc_text) + 1
            THEN DictSet(PyDict(<<>>), P.expression, PyStr(calc_text))
            ELSE PyDict(<<>>)
    IN  IF ~(Contains(question, <<"u8ba1", "u7b97">>) \/ Contains(question, <<"u7b49", "u4e8e">>)
             \/ Contains(question, <<"u7b97", "u5f0f">>))
        THEN PyDict(<<>>)
        ELSE Expression(
                 First(SearchOperations(question, 1),
                       Search(question, math_patterns.square),
                       Search(question, math_patterns.cube),
                       Search(question, math_patterns.simple)),
                 Strip(RemoveWords(question, << <<"u8ba1", "u7b97">>,
       <<"u7b49", "u4e8e", "u591a", "u5c11">>,
       <<"u7b97", "u5f0f">>,
       <<"u7ed3", "u679c">>,
       <<"u662f", "u591a", "u5c11">> >>, 1)))

extract_parameters(question, tool_name) ==
    CASE tool_name = TOOL.credit_card -> ExtractCreditCard(question)
      [] tool_name = TOOL.exchange_rate -> ExtractExchangeRate(question)
      [] tool_name = TOOL.utility_bill -> ExtractUtilityBill(question)
      [] tool_name = TOOL.user_assets -> ExtractUserAssets(question)
      [] tool_name = TOOL.payment_order -> ExtractPaymentOrder(question)
      [] tool_name = TOOL.calculator -> ExtractCalculator(question)
      [] OTHER -> PyDict(<<>>)

RECURSIVE RecognizedTools_unchecked(_, _)
RecognizedTools_unchecked(question, i) ==
    IF i > Len(api_tools_mapping) THEN <<>>
    ELSE IF AnyKeywordIn(api_tools_mapping[i].keywords, question)
    THEN <<Item(api_tools_mapping[i].name,
                extract_parameters(question, api_tools_mapping[i].name))>>
         \o RecognizedTools_unchecked(question, i + 1)
    ELSE RecognizedTools_unchecked(question, i + 1)

\* Lines 213-224: the tools whose keywords occur in the question and whose
\* required parameters were all extracted, from tool i on.
RECURSIVE RecognizedTools(_, _)
RecognizedTools(question, i) ==
    LET Recognized(tool_info, params) ==
            LET missing_params ==
                    {k \in 1..Len(tool_info.required_params) :
                        ~HasKey(params, tool_info.required_params[k])}
            IN  IF AnyKeywordIn(tool_info.keywords, question) /\ missing_params = {}
                THEN <<Item(tool_info.name, params)>> \o RecognizedTools(question, i + 1)
                ELSE RecognizedTools(question, i + 1)
    IN  IF i > Len(api_tools_mapping) THEN <<>>
        ELSE Recognized(api_tools_mapping[i],
                        extract_parameters(question, api_tools_mapping[i].name))

recognize_intent_by_rule_tools_first(question) ==
    LET Result(recognized_tools) ==
            IF Len(recognized_tools) >= 1 THEN PyDict(recognized_tools)
            ELSE IF \E t \in 1..Len(database_keywords) :
                       AnyKeywordIn(database_keywords[t], question)
            THEN PyDict(<<Item(K.query_tool, PyStr(K.database))>>)
            ELSE PyDict(<<>>)
    IN  Result(RecognizedTools(question, 1))

\* Lines 200-234.
recognize_intent_by_rule(question) ==
    LET database_queries ==
            {t \in 1..Len(database_keywords) :
                AnyKeywordIn(database_keywords[t], question)}
        Result(recognized_tools) ==
            IF database_queries # {}
            THEN PyDict(<<Item(K.query_tool, PyStr(K.database))>>)
            ELSE IF Len(recognized_tools) = 1
            THEN PyDict(<<recognized_tools[1]>>)
            ELSE IF Len(recognized_tools) > 1
            THEN PyDict(recognized_tools)
            ELSE PyDict(<<>>)
    IN  Result(RecognizedTools(question, 1))

(***************************************************************************)
(* recognize_intent_by_api.  What the model service does on one request is *)
(* a reply: the request fails (requests.post or raise_for_status raises),  *)
(* the response lacks choices[0].message.content as a str, or it carries   *)
(* a content text.                                                         *)
(***************************************************************************)
RequestFails == [kind |-> "request_exception", content |-> <<>>]
FieldsMissing == [kind |-> "malformed", content |-> <<>>]
Content(text) == [kind |-> "content", content |-> text]

\* Line 743.
prefix == <<"u0060", "u0060", "u0060", "j", "s", "o", "n">>
\* Lines 754-755: the first match of json_pattern in content, [found, text].
\* The first occurrence of prefix opens the first block; its text runs from
\* the first character that is no space to the first place from which spaces
\* and then a fence follow.
FirstJsonBlock(content) ==
    LET fence == <<"u0060", "u0060", "u0060">>
    IN
    LET open == FindFrom(content, prefix, 1)
        start == SkipSpace(content, open + Len(prefix))
        ends == {e \in start..(Len(content) + 1) :
                    OccursAt(content, fence, SkipSpace(content, e))}
    IN  IF open = 0 \/ ends = {} THEN [found |-> FALSE, text |-> <<>>]
        ELSE [found |-> TRUE,
              text |-> Slice(content, start,
                             (CHOOSE e \in ends : \A f \in ends : e <= f) - 1)]

\* Lines 724-775: [ret, exc, api, fallback]; fallback says that the value is
\* the one of recognize_intent_by_rule.
recognize_intent_by_api(question, api_choice, reply) ==
    LET \* The service asked: line 243 selects it by api_choice.
        ApiOf == IF api_choice = "qwen" THEN "qwen" ELSE "deepseek"
        \* Lines 743-745: the prefix and the last three characters are cut.
        content == IF OccursAt(reply.content, prefix, 1)
                   THEN Slice(reply.content, Len(prefix) + 1, Len(reply.content) - 3)
                   ELSE reply.content
        Outcome(value, fallback) ==
            [ret |-> value, exc |-> "none", api |-> ApiOf, fallback |-> fallback]
        \* Lines 748-775: json.loads of the content, else of its first block,
        \* else the rule-based recognition.
        Recognized(whole, block, inner, rule) ==
            IF reply.kind # "content" THEN Outcome(rule, TRUE)
            ELSE IF whole.ok THEN Outcome(whole.val, FALSE)
            ELSE IF block.found /\ inner.ok THEN Outcome(inner.val, FALSE)
            ELSE Outcome(rule, TRUE)
    IN  Recognized(json_loads(content), FirstJsonBlock(content),
                   json_loads(Strip(FirstJsonBlock(content).text)),
                   recognize_intent_by_rule(question))

\* Lines 777-784.
recognize_intent(question, api_choice, reply) ==
    recognize_intent_by_api(question, api_choice, reply)

(***************************************************************************)
(* apiagent/APIServices.py.  Arguments and results are Python values.  A   *)
(* call yields [ret, exc, http]: the value returned (None when it raised), *)
(* the exception raised ("none" when it returned) and the number of        *)
(* session.get invocations it made.                                        *)
(***************************************************************************)
TEST_MODE == TRUE

Returned(value, http) == [ret |-> value, exc |-> "none", http |-> http]
Raised(exception, http) == [ret |-> PyNone, exc |-> exception, http |-> http]


\* {'error': message}
ErrorDict(message) == PyDict(<<Item(K.error, PyStr(message))>>)

\* What session.get, raise_for_status and response.json() can do: answer with
\* a JSON body, or raise a requests.exceptions.RequestException.
HttpOutcomes == {"json", "request_exception"}

\* str.upper()
Upper(s) ==
    LET UpperOfLower ==
            <<"A", "B", "C", "D", "E", "F", "G", "H", "I", "J", "K", "L", "M",
              "N", "O", "P", "Q", "R", "S", "T", "U", "V", "W", "X", "Y", "Z">>
    IN
    LET LowerLetters ==
            <<"a", "b", "c", "d", "e", "f", "g", "h", "i", "j", "k", "l", "m",
              "n", "o", "p", "q", "r", "s", "t", "u", "v", "w", "x", "y", "z">>
    IN
    [i \in 1..Len(s) |->
        IF \E k \in 1..26 : LowerLetters[k] = s[i]
        THEN UpperOfLower[CHOOSE k \in 1..26 : LowerLetters[k] = s[i]]
        ELSE s[i]]

APIToolClient_get_mock_data(endpoint, params) ==
    Returned(PyDict(<<Item(<<"s", "t", "a", "t", "u", "s">>, PyStr(<<"s", "u", "c", "c", "e", "s", "s">>)),
                      Item(<<"m", "e", "s", "s", "a", "g", "e">>, PyStr(<<"u6d4b", "u8bd5", "u6a21", "u5f0f", " ", "-", " ", "u6a21", "u62df", "u6570", "u636e">>)),
                      Item(<<"e", "n", "d", "p", "o", "i", "n", "t">>, PyStr(endpoint)),
                      Item(<<"p", "a", "r", "a", "m", "s">>, params),
                      Item(<<"d", "a", "t", "a">>, PyDict(<<>>))>>), 0)

CreditCardService_get_mock_data(endpoint, params) ==
    LET Transaction(month, day, amount, merchant) ==
            Item(<<>>, PyDict(<<Item(<<"d", "a", "t", "e">>, PyStr(month \o day)),
                                Item(<<"a", "m", "o", "u", "n", "t">>, PyNum(amount)),
                                Item(<<"m", "e", "r", "c", "h", "a", "n", "t">>, PyStr(merchant))>>))
    IN
    LET month == Str(DictGetOr(params, P.month, PyStr(<<>>)))
    IN  Returned(PyDict(<<
            Item(<<"s", "t", "a", "t", "u", "s">>, PyStr(<<"s", "u", "c", "c", "e", "s", "s">>)),
            Item(P.cardNumber, DictGetOr(params, P.cardNumber, PyStr(<<>>))),
            Item(P.month, DictGetOr(params, P.month, PyStr(<<>>))),
            Item(<<"t", "o", "t", "a", "l", "A", "m", "o", "u", "n", "t">>, PyNum(<<"1", "2", "5", "0", ".", "5">>)),
            Item(<<"c", "u", "r", "r", "e", "n", "c", "y">>, PyStr(<<"C", "N", "Y">>)),
            Item(<<"t", "r", "a", "n", "s", "a", "c", "t", "i", "o", "n", "s">>, PyList(<<
                Transaction(month, <<"-", "0", "1">>, <<"1", "5", "0", ".", "0">>, <<"u8d85", "u5e02", "u8d2d", "u7269">>),
                Transaction(month, <<"-", "0", "5">>, <<"3", "0", "0", ".", "0">>, <<"u9910", "u5385", "u6d88", "u8d39">>),
                Transaction(month, <<"-", "1", "5">>, <<"8", "0", "0", ".", "5">>, <<"u5728", "u7ebf", "u8d2d", "u7269">>)>>)),
            Item(<<"d", "u", "e", "D", "a", "t", "e">>, PyStr(month \o <<"-", "2", "5">>)),
            Item(<<"m", "i", "n", "P", "a", "y", "m", "e", "n", "t">>, PyNum(<<"1", "2", "5", ".", "0", "5">>))>>), 0)

\* Lines 178-189: the table of rates.
exchange_rates ==
    << [from |-> <<"U", "S", "D">>, to |-> <<"C", "N", "Y">>, rate |-> <<"6", ".", "5">>],
       [from |-> <<"C", "N", "Y">>, to |-> <<"U", "S", "D">>, rate |-> <<"0", ".", "1", "5">>],
       [from |-> <<"J", "P", "Y">>, to |-> <<"C", "N", "Y">>, rate |-> <<"0", ".", "0", "4", "5">>],
       [from |-> <<"C", "N", "Y">>, to |-> <<"J", "P", "Y">>, rate |-> <<"2", "2", ".", "2", "2">>],
       [from |-> <<"E", "U", "R">>, to |-> <<"C", "N", "Y">>, rate |-> <<"7", ".", "2">>],
       [from |-> <<"C", "N", "Y">>, to |-> <<"E", "U", "R">>, rate |-> <<"0", ".", "1", "4">>],
       [from |-> <<"G", "B", "P">>, to |-> <<"C", "N", "Y">>, rate |-> <<"8", ".", "1">>],
       [from |-> <<"C", "N", "Y">>, to |-> <<"G", "B", "P">>, rate |-> <<"0", ".", "1", "2">>],
       [from |-> <<"K", "R", "W">>, to |-> <<"C", "N", "Y">>, rate |-> <<"0", ".", "0", "0", "5">>],
       [from |-> <<"C", "N", "Y">>, to |-> <<"K", "R", "W">>, rate |-> <<"2", "0", "0">>] >>

ExchangeRateService_get_mock_data(endpoint, params) ==
    LET \* exchange_rates.get((from_currency, to_currency), 1.0)
        RateOf(from_currency, to_currency) ==
            LET hits == {i \in 1..Len(exchange_rates) :
                            /\ exchange_rates[i].from = from_currency
                            /\ exchange_rates[i].to = to_currency}
            IN  IF hits = {} THEN <<"1", ".", "0">> ELSE exchange_rates[CHOOSE i \in hits : TRUE].rate
    IN
    LET \* round(amount * rate, 2), kept as the product it is the rounding of.
        Converted(amount, rate) ==
            PyNum(<<"r", "o", "u", "n", "d", "(">> \o amount.s \o <<"*">> \o rate \o <<",", " ", "2", ")">>)
    IN
    LET from_value == DictGetOr(params, P.fromCurrency, PyStr(<<>>))
        to_value == DictGetOr(params, P.toCurrency, PyStr(<<>>))
        amount == DictGetOr(params, P.amount, PyNum(<<"1", ".", "0">>))
        rate == RateOf(Upper(from_value.s), Upper(to_value.s))
    IN  IF from_value.t # "str" \/ to_value.t # "str" THEN Raised("AttributeError", 0)
        ELSE IF amount.t \notin {"num", "bool"} THEN Raised("TypeError", 0)
        ELSE Returned(PyDict(<<
                Item(<<"s", "t", "a", "t", "u", "s">>, PyStr(<<"s", "u", "c", "c", "e", "s", "s">>)),
                Item(P.fromCurrency, PyStr(Upper(from_value.s))),
                Item(P.toCurrency, PyStr(Upper(to_value.s))),
                Item(P.amount, amount),
                Item(<<"e", "x", "c", "h", "a", "n", "g", "e", "R", "a", "t", "e">>, PyNum(rate)),
                Item(<<"c", "o", "n", "v", "e", "r", "t", "e", "d", "A", "m", "o", "u", "n", "t">>, Converted(amount, rate)),
                Item(<<"t", "i", "m", "e", "s", "t", "a", "m", "p">>, PyStr(Clock.now))>>), 0)

UtilityBillService_get_mock_data(endpoint, params) ==
    LET UtilityPayload(household_id, month, utility_type, usage, amount, unitPrice, day) ==
            PyDict(<<Item(<<"s", "t", "a", "t", "u", "s">>, PyStr(<<"s", "u", "c", "c", "e", "s", "s">>)),
                     Item(P.householdId, household_id),
                     Item(P.month, month),
                     Item(P.utilityType, PyStr(utility_type)),
                     Item(<<"u", "s", "a", "g", "e">>, PyNum(usage)),
                     Item(P.amount, PyNum(amount)),
                     Item(<<"u", "n", "i", "t", "P", "r", "i", "c", "e">>, PyNum(unitPrice)),
                     Item(<<"d", "u", "e", "D", "a", "t", "e">>, PyStr(Str(month) \o day))>>)
    IN
    LET utility_type == DictGetOr(params, P.utilityType, PyStr(<<"e", "l", "e", "c", "t", "r", "i", "c", "i", "t", "y">>))
        household_id == DictGetOr(params, P.householdId, PyStr(<<>>))
        month == DictGetOr(params, P.month, PyStr(<<>>))
    IN  IF IsStr(utility_type, <<"e", "l", "e", "c", "t", "r", "i", "c", "i", "t", "y">>)
        THEN Returned(UtilityPayload(household_id, month, <<"e", "l", "e", "c", "t", "r", "i", "c", "i", "t", "y">>,
                                     <<"2", "5", "6", ".", "5">>, <<"1", "2", "8", ".", "2", "5">>, <<"0", ".", "5">>, <<"-", "2", "0">>), 0)
        ELSE IF IsStr(utility_type, <<"w", "a", "t", "e", "r">>)
        THEN Returned(UtilityPayload(household_id, month, <<"w", "a", "t", "e", "r">>,
                                     <<"1", "5", ".", "8">>, <<"4", "7", ".", "4">>, <<"3", ".", "0">>, <<"-", "1", "5">>), 0)
        ELSE Returned(UtilityPayload(household_id, month, <<"g", "a", "s">>,
                                     <<"3", "2", ".", "2">>, <<"9", "6", ".", "6">>, <<"3", ".", "0">>, <<"-", "2", "5">>), 0)

UserAssetsService_get_mock_data(endpoint, params) ==
    LET HouseholdAssets ==
            PyList(<<
                Item(<<>>, PyDict(<<Item(<<"a", "d", "d", "r", "e", "s", "s">>, PyStr(<<"u5317", "u4eac", "u5e02", "u671d", "u9633", "u533a", "u67d0", "u67d0", "u5c0f", "u533a", "1", "u53f7", "u697c", "1", "0", "1">>)),
                                    Item(<<"a", "r", "e", "a">>, PyNum(<<"8", "5", ".", "6">>)),
                                    Item(<<"e", "s", "t", "i", "m", "a", "t", "e", "d", "V", "a", "l", "u", "e">>, PyNum(<<"2", "5", "0", "0", "0", "0", "0", ".", "0">>)),
                                    Item(<<"p", "u", "r", "c", "h", "a", "s", "e", "D", "a", "t", "e">>, PyStr(<<"2", "0", "1", "8", "-", "0", "5", "-", "1", "5">>))>>)),
                Item(<<>>, PyDict(<<Item(<<"a", "d", "d", "r", "e", "s", "s">>, PyStr(<<"u4e0a", "u6d77", "u5e02", "u6d66", "u4e1c", "u65b0", "u533a", "u67d0", "u67d0", "u8def", "2", "0", "0", "u53f7">>)),
                                    Item(<<"a", "r", "e", "a">>, PyNum(<<"1", "2", "0", ".", "0">>)),
                                    Item(<<"e", "s", "t", "i", "m", "a", "t", "e", "d", "V", "a", "l", "u", "e">>, PyNum(<<"1", "0", "0", "0", "0", "0", "0", ".", "0">>)),
                                    Item(<<"p", "u", "r", "c", "h", "a", "s", "e", "D", "a", "t", "e">>, PyStr(<<"2", "0", "2", "0", "-", "1", "2", "-", "2", "0">>))>>))>>)
    IN
    LET CardAssets ==
            PyList(<<
                Item(<<>>, PyDict(<<Item(P.cardNumber, PyStr(<<"6", "2", "1", "1", "1", "1", "1", "1", "1", "1", "1", "1", "1", "1", "1", "1">>)),
                                    Item(<<"c", "a", "r", "d", "T", "y", "p", "e">>, PyStr(<<"u4fe1", "u7528", "u5361">>)),
                                    Item(<<"b", "a", "n", "k">>, PyStr(<<"u4e2d", "u56fd", "u94f6", "u884c">>)),
                                    Item(<<"c", "r", "e", "d", "i", "t", "L", "i", "m", "i", "t">>, PyNum(<<"5", "0", "0", "0", "0", ".", "0">>)),
                                    Item(<<"a", "v", "a", "i", "l", "a", "b", "l", "e", "C", "r", "e", "d", "i", "t">>, PyNum(<<"3", "7", "5", "0", "0", ".", "0">>)),
                                    Item(<<"c", "u", "r", "r", "e", "n", "t", "B", "a", "l", "a", "n", "c", "e">>, PyNum(<<"1", "2", "5", "0", "0", ".", "0">>))>>)),
                Item(<<>>, PyDict(<<Item(P.cardNumber, PyStr(<<"6", "2", "2", "2", "2", "2", "2", "2", "2", "2", "2", "2", "2", "2", "2", "2">>)),
                                    Item(<<"c", "a", "r", "d", "T", "y", "p", "e">>, PyStr(<<"u501f", "u8bb0", "u5361">>)),
                                    Item(<<"b", "a", "n", "k">>, PyStr(<<"u5de5", "u5546", "u94f6", "u884c">>)),
                                    Item(<<"b", "a", "l", "a", "n", "c", "e">>, PyNum(<<"1", "1", "2", "5", "0", "0", ".", "5">>))>>))>>)
    IN
    LET customer_id == DictGetOr(params, P.customerId, PyStr(<<>>))
        asset_type == DictGetOr(params, P.assetType, PyStr(<<"c", "a", "r", "d">>))
    IN  IF IsStr(asset_type, <<"c", "a", "r", "d">>)
        THEN Returned(PyDict(<<Item(<<"s", "t", "a", "t", "u", "s">>, PyStr(<<"s", "u", "c", "c", "e", "s", "s">>)),
                               Item(P.customerId, customer_id),
                               Item(P.assetType, PyStr(<<"c", "a", "r", "d">>)),
                               Item(<<"t", "o", "t", "a", "l", "A", "s", "s", "e", "t", "s">>, PyNum(<<"1", "2", "5", "0", "0", "0", ".", "5">>)),
                               Item(<<"c", "a", "r", "d", "s">>, CardAssets)>>), 0)
        ELSE Returned(PyDict(<<Item(<<"s", "t", "a", "t", "u", "s">>, PyStr(<<"s", "u", "c", "c", "e", "s", "s">>)),
                               Item(P.customerId, customer_id),
                               Item(P.assetType, PyStr(<<"h", "o", "u", "s", "e", "h", "o", "l", "d">>)),
                               Item(<<"t", "o", "t", "a", "l", "A", "s", "s", "e", "t", "s">>, PyNum(<<"3", "5", "0", "0", "0", "0", "0", ".", "0">>)),
                               Item(<<"p", "r", "o", "p", "e", "r", "t", "i", "e", "s">>, HouseholdAssets)>>), 0)

PaymentOrderService_get_mock_data(endpoint, params) ==
    LET merchant_id == DictGetOr(params, P.merchantId, PyStr(<<>>))
        order_id == DictGetOr(params, P.orderId, PyStr(<<>>))
        amount == DictGetOr(params, P.amount, PyNum(<<"0", ".", "0">>))
    IN  Returned(PyDict(<<
            Item(<<"s", "t", "a", "t", "u", "s">>, PyStr(<<"s", "u", "c", "c", "e", "s", "s">>)),
            Item(P.merchantId, merchant_id),
            Item(P.orderId, order_id),
            Item(P.amount, amount),
            Item(<<"o", "r", "d", "e", "r", "S", "t", "a", "t", "u", "s">>, PyStr(<<"C", "R", "E", "A", "T", "E", "D">>)),
            Item(<<"p", "a", "y", "m", "e", "n", "t", "U", "r", "l">>,
                 PyStr(<<"h", "t", "t", "p", "s", ":", "/", "/", "p", "a", "y", "m", "e", "n", "t", ".", "e", "x", "a", "m", "p", "l", "e", ".", "c", "o", "m", "/", "p", "a", "y", "/">> \o Str(order_id))),
            Item(<<"q", "r", "C", "o", "d", "e">>, PyStr(<<"d", "a", "t", "a", ":", "i", "m", "a", "g", "e", "/", "p", "n", "g", ";", "b", "a", "s", "e", "6", "4", ",", "u6a21", "u62df", "u4e8c", "u7ef4", "u7801", "u6570", "u636e">>)),
            Item(<<"c", "r", "e", "a", "t", "e", "T", "i", "m", "e">>, PyStr(Clock.now)),
            Item(<<"e", "x", "p", "i", "r", "e", "T", "i", "m", "e">>, PyStr(Clock.tomorrow))>>), 0)

\* self._get_mock_data: each service class overrides the base method.
get_mock_data(service, endpoint, params) ==
    CASE service = "credit_card" -> CreditCardService_get_mock_data(endpoint, params)
      [] service = "exchange_rate" -> ExchangeRateService_get_mock_data(endpoint, params)
      [] service = "utility_bill" -> UtilityBillService_get_mock_data(endpoint, params)
      [] service = "user_assets" -> UserAssetsService_get_mock_data(endpoint, params)
      [] service = "payment_order" -> PaymentOrderService_get_mock_data(endpoint, params)
      [] OTHER -> APIToolClient_get_mock_data(endpoint, params)

\* Lines 31-37: the request of _get.
SessionGet(endpoint, params, http) ==
    LET \* The body the remote service answers with.
        RemoteBody == PyDict(<<Item(<<"s", "t", "a", "t", "u", "s">>, PyStr(<<"s", "u", "c", "c", "e", "s", "s">>)),
                               Item(<<"s", "o", "u", "r", "c", "e">>, PyStr(<<"r", "e", "m", "o", "t", "e">>))>>)
    IN
    IF http = "json" THEN Returned(RemoteBody, 1)
    ELSE Returned(ErrorDict(<<"A", "P", "I", "u8bf7", "u6c42", "u5931", "u8d25", ":", " ", "R", "e", "q", "u", "e", "s", "t", "E", "x", "c", "e", "p", "t", "i", "o", "n">>), 1)

\* _get with the TEST_MODE test left out.
APIToolClient_get_untested(service, endpoint, params, http) ==
    SessionGet(endpoint, params, http)

\* APIToolClient._get.
APIToolClient_get(service, endpoint, params, http) ==
    IF TEST_MODE THEN get_mock_data(service, endpoint, params)
    ELSE SessionGet(endpoint, params, http)

validate_parameters(params, required_fields) ==
    \A i \in 1..Len(required_fields) :
        /\ HasKey(params, required_fields[i])
        /\ DictGet(params, required_fields[i]).t # "none"

CreditCardService_get_monthly_bill(cardNumber, month, http) ==
    LET params == PyDict(<<Item(P.cardNumber, cardNumber), Item(P.month, month)>>)
    IN  IF ~validate_parameters(params, <<P.cardNumber, P.month>>)
        THEN Returned(ErrorDict(<<"u7f3a", "u5c11", "u5fc5", "u586b", "u53c2", "u6570", ":", " ", "c", "a", "r", "d", "N", "u", "m", "b", "e", "r", " ", "u6216", " ", "m", "o", "n", "t", "h">>), 0)
        ELSE APIToolClient_get("credit_card", <<"/", "a", "p", "i", "/", "c", "r", "e", "d", "i", "t", "-", "c", "a", "r", "d", "/", "m", "o", "n", "t", "h", "l", "y", "-", "b", "i", "l", "l">>,
                               params, http)

SUPPORTED_CURRENCIES == {<<"U", "S", "D">>, <<"C", "N", "Y">>, <<"E", "U", "R">>, <<"J", "P", "Y">>, <<"G", "B", "P">>, <<"K", "R", "W">>}

\* get_exchange_rate with the target currency checked before the source.
ExchangeRateService_get_exchange_rate_target_first(fromCurrency, toCurrency, amount, http) ==
    IF fromCurrency.t # "str" \/ toCurrency.t # "str"
    THEN Raised("AttributeError", 0)
    ELSE
    LET params == PyDict(<<Item(P.fromCurrency, PyStr(Upper(fromCurrency.s))),
                           Item(P.toCurrency, PyStr(Upper(toCurrency.s))),
                           Item(P.amount, amount)>>)
    IN  IF Upper(toCurrency.s) \notin SUPPORTED_CURRENCIES
        THEN Returned(ErrorDict(<<"u4e0d", "u652f", "u6301", "u7684", "u76ee", "u6807", "u8d27", "u5e01", "u4ee3", "u7801", ":", " ">> \o toCurrency.s), 0)
        ELSE IF Upper(fromCurrency.s) \notin SUPPORTED_CURRENCIES
        THEN Returned(ErrorDict(<<"u4e0d", "u652f", "u6301", "u7684", "u6e90", "u8d27", "u5e01", "u4ee3", "u7801", ":", " ">> \o fromCurrency.s), 0)
        ELSE APIToolClient_get("exchange_rate", <<"/", "a", "p", "i", "/", "e", "x", "c", "h", "a", "n", "g", "e", "-", "r", "a", "t", "e">>, params, http)

ExchangeRateService_get_exchange_rate(fromCurrency, toCurrency, amount, http) ==
    IF fromCurrency.t # "str" \/ toCurrency.t # "str"
    THEN Raised("AttributeError", 0)       \* only a str has upper()
    ELSE
    LET params == PyDict(<<Item(P.fromCurrency, PyStr(Upper(fromCurrency.s))),
                           Item(P.toCurrency, PyStr(Upper(toCurrency.s))),
                           Item(P.amount, amount)>>)
    IN  IF Upper(fromCurrency.s) \notin SUPPORTED_CURRENCIES
        THEN Returned(ErrorDict(<<"u4e0d", "u652f", "u6301", "u7684", "u6e90", "u8d27", "u5e01", "u4ee3", "u7801", ":", " ">> \o fromCurrency.s), 0)
        ELSE IF Upper(toCurrency.s) \notin SUPPORTED_CURRENCIES
        THEN Returned(ErrorDict(<<"u4e0d", "u652f", "u6301", "u7684", "u76ee", "u6807", "u8d27", "u5e01", "u4ee3", "u7801", ":", " ">> \o toCurrency.s), 0)
        ELSE IF ~validate_parameters(params, <<P.fromCurrency, P.toCurrency>>)
        THEN Returned(ErrorDict(<<"u7f3a", "u5c11", "u5fc5", "u586b", "u53c2", "u6570", ":", " ", "f", "r", "o", "m", "C", "u", "r", "r", "e", "n", "c", "y", " ", "u6216", " ", "t", "o", "C", "u", "r", "r", "e", "n", "c", "y">>), 0)
        ELSE APIToolClient_get("exchange_rate", <<"/", "a", "p", "i", "/", "e", "x", "c", "h", "a", "n", "g", "e", "-", "r", "a", "t", "e">>, params, http)

utilityTypeS == {<<"e", "l", "e", "c", "t", "r", "i", "c", "i", "t", "y">>, <<"w", "a", "t", "e", "r">>, <<"g", "a", "s">>}

UtilityBillService_get_monthly_bill(householdId, month, utilityType, http) ==
    LET params == PyDict(<<Item(P.householdId, householdId), Item(P.month, month),
                           Item(P.utilityType, utilityType)>>)
    IN  IF ~validate_parameters(params, <<P.householdId, P.month>>)
        THEN Returned(ErrorDict(<<"u7f3a", "u5c11", "u5fc5", "u586b", "u53c2", "u6570", ":", " ", "h", "o", "u", "s", "e", "h", "o", "l", "d", "I", "d", " ", "u6216", " ", "m", "o", "n", "t", "h">>), 0)
        ELSE IF ~Hashable(utilityType) THEN Raised("TypeError", 0)
        ELSE IF ~(utilityType.t = "str" /\ utilityType.s \in utilityTypeS)
        THEN Returned(ErrorDict(<<"u4e0d", "u652f", "u6301", "u7684", "u8d26", "u5355", "u7c7b", "u578b", ":", " ">> \o Str(utilityType)), 0)
        ELSE APIToolClient_get("utility_bill", <<"/", "a", "p", "i", "/", "u", "t", "i", "l", "i", "t", "y", "-", "b", "i", "l", "l", "/", "m", "o", "n", "t", "h", "l", "y", "-", "b", "i", "l", "l">>,
                               params, http)

assetTypeS == {<<"c", "a", "r", "d">>, <<"h", "o", "u", "s", "e", "h", "o", "l", "d">>}

UserAssetsService_get_user_assets(customerId, assetType, http) ==
    LET params == PyDict(<<Item(P.customerId, customerId),
                           Item(P.assetType, assetType)>>)
    IN  IF ~validate_parameters(params, <<P.customerId>>)
        THEN Returned(ErrorDict(<<"u7f3a", "u5c11", "u5fc5", "u586b", "u53c2", "u6570", ":", " ", "c", "u", "s", "t", "o", "m", "e", "r", "I", "d">>), 0)
        ELSE IF ~Hashable(assetType) THEN Raised("TypeError", 0)
        ELSE IF ~(assetType.t = "str" /\ assetType.s \in assetTypeS)
        THEN Returned(ErrorDict(<<"u4e0d", "u652f", "u6301", "u7684", "u8d44", "u4ea7", "u7c7b", "u578b", ":", " ">> \o Str(assetType)), 0)
        ELSE APIToolClient_get("user_assets", <<"/", "a", "p", "i", "/", "u", "s", "e", "r", "/", "a", "s", "s", "e", "t", "s">>, params, http)

PaymentOrderService_create_payment_order(merchantId, orderId, amount, http) ==
    LET base == PyDict(<<Item(P.merchantId, merchantId), Item(P.orderId, orderId)>>)
        params == IF amount.t # "none" THEN DictSet(base, P.amount, amount) ELSE base
    IN  IF ~validate_parameters(params, <<P.merchantId, P.orderId>>)
        THEN Returned(ErrorDict(<<"u7f3a", "u5c11", "u5fc5", "u586b", "u53c2", "u6570", ":", " ", "m", "e", "r", "c", "h", "a", "n", "t", "I", "d", " ", "u6216", " ", "o", "r", "d", "e", "r", "I", "d">>), 0)
        ELSE APIToolClient_get("payment_order", <<"/", "a", "p", "i", "/", "q", "r", "/", "c", "r", "e", "a", "t", "e", "-", "p", "a", "y", "m", "e", "n", "t", "-", "o", "r", "d", "e", "r">>,
                               params, http)

\* The arguments the service operations are called with: values of the
\* declared parameter types, and None where the operation checks for it.
Args ==
    [cardNumber |-> {PyStr(<<"6", "2", "1", "1", "1", "1", "1", "1", "1", "1", "1", "1", "1", "1", "1", "1">>), PyNone},
     month |-> {PyStr(<<"2", "0", "2", "5", "-", "0", "8">>), PyNone},
     currency |-> {PyStr(<<"U", "S", "D">>), PyStr(<<"C", "N", "Y">>), PyStr(<<"J", "P", "Y">>), PyStr(<<"K", "R", "W">>),
                   PyStr(<<"u", "s", "d">>), PyStr(<<"j", "p", "y">>), PyStr(<<"X", "Y", "Z">>), PyStr(<<"x", "y", "z">>), PyNone},
     exchangeAmount |-> {PyNum(<<"1", ".", "0">>), PyNum(<<"5", "0", "0", "0">>)},
     householdId |-> {PyStr(<<"B", "J", "0", "0", "1", "2", "3", "4", "5", "6", "8">>), PyNone},
     utilityType |-> {PyStr(<<"e", "l", "e", "c", "t", "r", "i", "c", "i", "t", "y">>), PyStr(<<"w", "a", "t", "e", "r">>), PyStr(<<"g", "a", "s">>),
                      PyStr(<<"h", "e", "a", "t">>)},
     customerId |-> {PyStr(<<"1", "1", "0", "1", "0", "1", "1", "9", "9", "0", "0", "3", "0", "7", "2", "8", "4", "5">>), PyNone},
     assetType |-> {PyStr(<<"c", "a", "r", "d">>), PyStr(<<"h", "o", "u", "s", "e", "h", "o", "l", "d">>), PyStr(<<"s", "t", "o", "c", "k">>)},
     merchantId |-> {PyStr(<<"M", "1", "2", "3", "4", "5", "6">>), PyNone},
     orderId |-> {PyStr(<<"O", "R", "D", "2", "0", "2", "5", "0", "0", "1">>), PyNone},
     paymentAmount |-> {PyNum(<<"1", "0", "0", ".", "5">>), PyNone}]

SvcCall(service, args, out) ==
    [service |-> service, args |-> args, ret |-> out.ret, exc |-> out.exc,
     http |-> out.http]

CreditCardBill ==
    /\ \E cardNumber \in Args.cardNumber, month \in Args.month, http \in HttpOutcomes :
          svc' = SvcCall("credit_card", <<cardNumber, month>>,
                         CreditCardService_get_monthly_bill(cardNumber, month, http))
    /\ UNCHANGED <<cdb, exam, rec, agent, qry, unit, srv>>

ExchangeRate ==
    /\ \E fromCurrency \in Args.currency, toCurrency \in Args.currency,
          amount \in Args.exchangeAmount, http \in HttpOutcomes :
          svc' = SvcCall("exchange_rate", <<fromCurrency, toCurrency, amount>>,
                         ExchangeRateService_get_exchange_rate(
                             fromCurrency, toCurrency, amount, http))
    /\ UNCHANGED <<cdb, exam, rec, agent, qry, unit, srv>>

UtilityBill ==
    /\ \E householdId \in Args.householdId, month \in Args.month,
          utilityType \in Args.utilityType, http \in HttpOutcomes :
          svc' = SvcCall("utility_bill", <<householdId, month, utilityType>>,
                         UtilityBillService_get_monthly_bill(
                             householdId, month, utilityType, http))
    /\ UNCHANGED <<cdb, exam, rec, agent, qry, unit, srv>>

UserAssets ==
    /\ \E customerId \in Args.customerId, assetType \in Args.assetType,
          http \in HttpOutcomes :
          svc' = SvcCall("user_assets", <<customerId, assetType>>,
                         UserAssetsService_get_user_assets(customerId, assetType, http))
    /\ UNCHANGED <<cdb, exam, rec, agent, qry, unit, srv>>

PaymentOrder ==
    /\ \E merchantId \in Args.merchantId, orderId \in Args.orderId,
          amount \in Args.paymentAmount, http \in HttpOutcomes :
          svc' = SvcCall("payment_order", <<merchantId, orderId, amount>>,
                         PaymentOrderService_create_payment_order(
                             merchantId, orderId, amount, http))
    /\ UNCHANGED <<cdb, exam, rec, agent, qry, unit, srv>>


(***************************************************************************)
(* LocalTools (apiagent/APIServices.py) and apiagent/ToolAgent.py.         *)
(***************************************************************************)
LocalTools_get_current_date ==
    LET \* The clock of get_current_date, in UTC+8.
        current_date == <<"2", "0", "2", "5", "-", "1", "0", "-", "1", "5">>
    IN
    LET current_datetime == <<"2", "0", "2", "5", "-", "1", "0", "-", "1", "5", " ", "0", "9", ":", "3", "0", ":", "0", "0">>
    IN
    LET current_timestamp == <<"1", "7", "6", "0", "4", "9", "1", "8", "0", "0">>
    IN
    PyDict(<<Item(<<"c", "u", "r", "r", "e", "n", "t", "_", "d", "a", "t", "e">>, PyStr(current_date)),
             Item(<<"c", "u", "r", "r", "e", "n", "t", "_", "d", "a", "t", "e", "t", "i", "m", "e">>, PyStr(current_datetime)),
             Item(<<"t", "i", "m", "e", "z", "o", "n", "e">>, PyStr(<<"U", "T", "C", "+", "8">>)),
             Item(<<"t", "i", "m", "e", "s", "t", "a", "m", "p">>, PyNum(current_timestamp))>>)

\* The text of an exception, str(e): the name of its class stands for it.
ExcText(exc) ==
    CASE exc = "AttributeError" -> <<"A", "t", "t", "r", "i", "b", "u", "t", "e", "E", "r", "r", "o", "r">>
      [] exc = "TypeError" -> <<"T", "y", "p", "e", "E", "r", "r", "o", "r">>
      [] exc = "ZeroDivisionError" -> <<"Z", "e", "r", "o", "D", "i", "v", "i", "s", "i", "o", "n", "E", "r", "r", "o", "r">>
      [] OTHER -> <<"E", "x", "c", "e", "p", "t", "i", "o", "n">>

\* LocalTools.calculator: [ret, evaluated]; evaluated says that eval was reached.
LocalTools_calculator(expression, outcome) ==
    LET \* Lines 413-418.
        MathNames(expr) ==
            Replace(Replace(Replace(Replace(Replace(Replace(expr,
                <<"s", "q", "r", "t">>, <<"m", "a", "t", "h", ".", "s", "q", "r", "t">>), <<"p", "o", "w">>, <<"m", "a", "t", "h", ".", "p", "o", "w">>), <<"s", "i", "n">>, <<"m", "a", "t", "h", ".", "s", "i", "n">>),
                <<"c", "o", "s">>, <<"m", "a", "t", "h", ".", "c", "o", "s">>), <<"t", "a", "n">>, <<"m", "a", "t", "h", ".", "t", "a", "n">>), <<"l", "o", "g">>, <<"m", "a", "t", "h", ".", "l", "o", "g">>)
    IN
    LET \* Line 410: re.match of the allow-list; $ also matches before a last newline.
        AllowListed(expr) ==
            LET run == RunEnd(expr, 1, "[0-9+\\-*/().,sqrtpowlogsincostan]",
                              Len(expr))
            IN  /\ run >= 1
                /\ \/ run = Len(expr)
                   \/ run = Len(expr) - 1 /\ expr[Len(expr)] = "\n"
    IN
    LET \* Lines 403-408: the replacements, in the order of replace_dict.
        CalculatorReplacements(expr) ==
            Replace(Replace(Replace(Replace(Replace(Replace(expr,
                <<" ">>, <<>>), <<"^">>, <<"*", "*">>), <<"u7684", "u5e73", "u65b9">>, <<"*", "*", "2">>),
                <<"u7684", "u7acb", "u65b9">>, <<"*", "*", "3">>), <<"u662f", "u591a", "u5c11">>, <<>>), <<"u7b49", "u4e8e", "u591a", "u5c11">>, <<>>)
    IN
    IF expression.t # "str"
    THEN [ret |-> ErrorDict(<<"u8ba1", "u7b97", "u9519", "u8bef", ":", " ">> \o ExcText("AttributeError")),
          evaluated |-> FALSE]
    ELSE
    LET replaced == CalculatorReplacements(expression.s)
        named == MathNames(replaced)
    IN  IF ~AllowListed(replaced)
        THEN [ret |-> PyDict(<<Item(P.expression, PyStr(replaced)),
                               Item(K.error, PyStr(<<"u8868", "u8fbe", "u5f0f", "u5305", "u542b", "u4e0d", "u5b89", "u5168", "u5b57", "u7b26">>))>>),
              evaluated |-> FALSE]
        ELSE IF outcome = "ZeroDivisionError"
        THEN [ret |-> ErrorDict(<<"u9664", "u96f6", "u9519", "u8bef">>), evaluated |-> TRUE]
        ELSE IF outcome = "Exception"
        THEN [ret |-> ErrorDict(<<"u8ba1", "u7b97", "u9519", "u8bef", ":", " ">> \o ExcText("Exception")),
              evaluated |-> TRUE]
        ELSE [ret |-> PyDict(<<Item(P.expression, PyStr(named)),
                               Item(<<"r", "e", "s", "u", "l", "t">>, PyNum(<<"e", "v", "a", "l", "(">> \o named \o <<")">>)),
                               Item(<<"t", "y", "p", "e">>, PyStr(IF outcome = "int" THEN <<"i", "n", "t">>
                                                    ELSE <<"f", "l", "o", "a", "t">>))>>),
              evaluated |-> TRUE]

\* What the services and eval do during one call: [http, eval].
Environments ==
    LET \* What eval does with an expression: it yields an int or a float, raises
        \* ZeroDivisionError, or raises another exception.
        EvalOutcomes == {"int", "float", "ZeroDivisionError", "Exception"}
    IN
                [http : HttpOutcomes, eval : EvalOutcomes]

execute_tool_unhandled(tool_name, params, env) ==
    LET Arg(key, default) == DictGetOr(params, key, default)
        Call(service, out) ==
            [ret |-> out.ret, exc |-> out.exc, http |-> out.http, service |-> service]
        NoGet == [ret |-> PyNone, exc |-> "AttributeError", http |-> 0,
                  service |-> "none"]
        Unhandled(try) ==
            [ret |-> try.ret, exc |-> try.exc, http |-> try.http,
             service |-> try.service, caught |-> "none"]
    IN  Unhandled(
            CASE tool_name = TOOL.credit_card ->
                   IF params.t # "dict" THEN NoGet
                   ELSE Call("credit_card", CreditCardService_get_monthly_bill(
                            Arg(P.cardNumber, PyNone), Arg(P.month, PyNone), env.http))
              [] tool_name = TOOL.exchange_rate ->
                   IF params.t # "dict" THEN NoGet
                   ELSE Call("exchange_rate", ExchangeRateService_get_exchange_rate(
                            Arg(P.fromCurrency, PyNone), Arg(P.toCurrency, PyNone),
                            Arg(P.amount, PyNum(<<"1", ".", "0">>)), env.http))
              [] tool_name = TOOL.utility_bill ->
                   IF params.t # "dict" THEN NoGet
                   ELSE Call("utility_bill", UtilityBillService_get_monthly_bill(
                            Arg(P.householdId, PyNone), Arg(P.month, PyNone),
                            Arg(P.utilityType, PyStr(<<"e", "l", "e", "c", "t", "r", "i", "c", "i", "t", "y">>)), env.http))
              [] tool_name = TOOL.user_assets ->
                   IF params.t # "dict" THEN NoGet
                   ELSE Call("user_assets", UserAssetsService_get_user_assets(
                            Arg(P.customerId, PyNone), Arg(P.assetType, PyStr(<<"c", "a", "r", "d">>)),
                            env.http))
              [] tool_name = TOOL.payment_order ->
                   IF params.t # "dict" THEN NoGet
                   ELSE Call("payment_order", PaymentOrderService_create_payment_order(
                            Arg(P.merchantId, PyNone), Arg(P.orderId, PyNone),
                            Arg(P.amount, PyNone), env.http))
              [] tool_name = TOOL.current_date ->
                   Call("get_current_date", Returned(LocalTools_get_current_date, 0))
              [] tool_name = TOOL.calculator ->
                   IF params.t # "dict" THEN NoGet
                   ELSE Call("calculator",
                             Returned(LocalTools_calculator(Arg(P.expression, PyStr(<<>>)),
                                                            env.eval).ret, 0))
              [] OTHER ->
                   Call("none", Returned(ErrorDict(<<"u672a", "u77e5", "u7684", "u5de5", "u5177", ":", " ">> \o tool_name), 0)))

\* ToolAgent.execute_tool: [ret, exc, http, service, caught].
execute_tool(tool_name, params, env) ==
    LET Arg(key, default) == DictGetOr(params, key, default)
        Call(service, out) ==
            [ret |-> out.ret, exc |-> out.exc, http |-> out.http, service |-> service]
        NoGet == [ret |-> PyNone, exc |-> "AttributeError", http |-> 0,
                  service |-> "none"]
        \* Lines 47-48: the handler turns an exception into an error dict.
        Handled(try) ==
            [ret |-> IF try.exc = "none" THEN try.ret
                     ELSE ErrorDict(<<"u5de5", "u5177", "u6267", "u884c", "u9519", "u8bef", ":", " ">> \o ExcText(try.exc)),
             exc |-> "none", http |-> try.http, service |-> try.service,
             caught |-> try.exc]
    IN  \* Lines 21-46: the try block, [ret, exc, http, service].
        Handled(
            CASE tool_name = TOOL.credit_card ->
                   IF params.t # "dict" THEN NoGet
                   ELSE Call("credit_card", CreditCardService_get_monthly_bill(
                            Arg(P.cardNumber, PyNone), Arg(P.month, PyNone), env.http))
              [] tool_name = TOOL.exchange_rate ->
                   IF params.t # "dict" THEN NoGet
                   ELSE Call("exchange_rate", ExchangeRateService_get_exchange_rate(
                            Arg(P.fromCurrency, PyNone), Arg(P.toCurrency, PyNone),
                            Arg(P.amount, PyNum(<<"1", ".", "0">>)), env.http))
              [] tool_name = TOOL.utility_bill ->
                   IF params.t # "dict" THEN NoGet
                   ELSE Call("utility_bill", UtilityBillService_get_monthly_bill(
                            Arg(P.householdId, PyNone), Arg(P.month, PyNone),
                            Arg(P.utilityType, PyStr(<<"e", "l", "e", "c", "t", "r", "i", "c", "i", "t", "y">>)), env.http))
              [] tool_name = TOOL.user_assets ->
                   IF params.t # "dict" THEN NoGet
                   ELSE Call("user_assets", UserAssetsService_get_user_assets(
                            Arg(P.customerId, PyNone), Arg(P.assetType, PyStr(<<"c", "a", "r", "d">>)),
                            env.http))
              [] tool_name = TOOL.payment_order ->
                   IF params.t # "dict" THEN NoGet
                   ELSE Call("payment_order", PaymentOrderService_create_payment_order(
                            Arg(P.merchantId, PyNone), Arg(P.orderId, PyNone),
                            Arg(P.amount, PyNone), env.http))
              [] tool_name = TOOL.current_date ->
                   Call("get_current_date", Returned(LocalTools_get_current_date, 0))
              [] tool_name = TOOL.calculator ->
                   IF params.t # "dict" THEN NoGet
                   ELSE Call("calculator",
                             Returned(LocalTools_calculator(Arg(P.expression, PyStr(<<>>)),
                                                            env.eval).ret, 0))
              [] OTHER ->
                   Call("none", Returned(ErrorDict(<<"u672a", "u77e5", "u7684", "u5de5", "u5177", ":", " ">> \o tool_name), 0)))

\* "\n".join(parts)
RECURSIVE JoinLines(_)
JoinLines(parts) ==
    IF parts = <<>> THEN <<>>
    ELSE IF Len(parts) = 1 THEN parts[1]
    ELSE parts[1] \o <<"\n">> \o JoinLines(Tail(parts))

\* Lines 103-119: result_desc, for a params that has get.
ResultDesc(tool_name, params, tool_result) ==
    LET Unknown == PyStr(<<"u672a", "u77e5">>)
    IN
    LET Arg(key, default) == Str(DictGetOr(params, key, default))
        Res(key) == Str(DictGetOr(tool_result, key, Unknown))
    IN  IF In(K.error, tool_result)
        THEN <<"u6267", "u884c", "u5931", "u8d25", ":", " ">> \o Str(DictGet(tool_result, K.error))
        ELSE IF tool_name = TOOL.utility_bill
        THEN <<"u6237", "u53f7", " ">> \o Arg(P.householdId, PyNone) \o <<" ", "u5728", " ">> \o Arg(P.month, PyNone)
             \o <<" ", "u7684", "u7535", "u4f7f", "u7528", "u91cf", "u4e3a", " ">> \o Res(<<"u", "s", "a", "g", "e">>) \o <<" ", "u5ea6">>
        ELSE IF tool_name = TOOL.exchange_rate
        THEN Arg(P.amount, PyNum(<<"1">>)) \o <<" ">> \o Arg(P.fromCurrency, PyNone)
             \o <<" ", "u53ef", "u5151", "u6362", " ">> \o Res(<<"c", "o", "n", "v", "e", "r", "t", "e", "d", "A", "m", "o", "u", "n", "t">>) \o <<" ">>
             \o Arg(P.toCurrency, PyNone) \o <<"uff0c", "u6c47", "u7387", "u4e3a", " ">> \o Res(<<"e", "x", "c", "h", "a", "n", "g", "e", "R", "a", "t", "e">>)
        ELSE IF tool_name = TOOL.calculator
        THEN <<"u8ba1", "u7b97", "u7ed3", "u679c", ":", " ">> \o Res(<<"r", "e", "s", "u", "l", "t">>)
        ELSE IF tool_name = TOOL.current_date
        THEN <<"u5f53", "u524d", "u65e5", "u671f", ":", " ">> \o Res(<<"c", "u", "r", "r", "e", "n", "t", "_", "d", "a", "t", "e">>)
        ELSE <<"u6267", "u884c", "u6210", "u529f", ":", " ">> \o json_dumps(tool_result)

\* Whether line 109 or 113 calls get on a params that has none.
DescRaises(tool_name, params, tool_result) ==
    /\ ~In(K.error, tool_result)
    /\ tool_name \in {TOOL.utility_bill, TOOL.exchange_rate}
    /\ params.t # "dict"

\* Lines 97-121: the loop over the items of intent_result from item i on,
\* [parts, calls, exc]: the lines appended to new_question_parts, the calls of
\* execute_tool made, and the exception that ended the loop ("none" if none).
RECURSIVE ToolLoop(_, _, _, _, _)
ToolLoop(items, i, env, parts, calls) ==
    LET Step(tool_name, params, done) ==
            LET call == [tool |-> tool_name, params |-> params, ret |-> done.ret,
                         service |-> done.service, http |-> done.http]
            IN  IF DescRaises(tool_name, params, done.ret)
                THEN [parts |-> parts, calls |-> Append(calls, call),
                      exc |-> "AttributeError"]
                ELSE ToolLoop(items, i + 1, env,
                              Append(parts, tool_name \o <<"u6267", "u884c", "u7ed3", "u679c", ":", " ">>
                                            \o ResultDesc(tool_name, params, done.ret)),
                              Append(calls, call))
    IN  IF i > Len(items) THEN [parts |-> parts, calls |-> calls, exc |-> "none"]
        ELSE Step(items[i].k, items[i].v, execute_tool(items[i].k, items[i].v, env))

\* A call of the agent: [op, question, reply, intent, ret, exc, calls].
AgentDone(op, question, reply, intent, ret, exc, calls) ==
    [op |-> op, question |-> question, reply |-> reply, intent |-> intent,
     ret |-> ret, exc |-> exc, calls |-> calls]

\* ToolAgent.execute_and_generate_new_question.
execute_and_generate_new_question(question, reply, env) ==
    LET Generate(intent_result) ==
            LET Done(ret, exc, calls) ==
                    AgentDone("execute_and_generate_new_question", question, reply,
                              intent_result, ret, exc, calls)
                Looped(loop) ==
                    IF loop.exc # "none" THEN Done(PyNone, loop.exc, loop.calls)
                    ELSE Done(PyStr(JoinLines(loop.parts)), "none", loop.calls)
            IN  IF ~InDefined(intent_result) THEN Done(PyNone, "TypeError", <<>>)
                ELSE IF In(K.database, intent_result)
                THEN Done(PyStr(<<"{">> \o <<"'", "u539f", "u59cb", "u95ee", "u9898", "'", ":", " ">> \o question \o <<",", " ", "'", "u8bc6", "u522b", "u7ed3", "u679c", "'", ":", " ">>
                                \o Str(intent_result) \o <<"}">>), "none", <<>>)
                ELSE IF ~Truthy(intent_result)
                THEN Done(PyStr(<<"u539f", "u59cb", "u95ee", "u9898", ":", " ">> \o question), "none", <<>>)
                ELSE IF intent_result.t # "dict" THEN Done(PyNone, "AttributeError", <<>>)
                ELSE Looped(ToolLoop(intent_result.items, 1, env,
                                     <<<<"u539f", "u59cb", "u95ee", "u9898", ":", " ">> \o question>>, <<>>))
    IN  Generate(recognize_intent_by_api(question, "qwen", reply).ret)

\* ToolAgent.process_question.
process_question(question, reply) ==
    LET Process(intent_result) ==
            LET Done(ret, exc) ==
                    AgentDone("process_question", question, reply, intent_result,
                              ret, exc, <<>>)
            IN  IF ~InDefined(intent_result) THEN Done(PyNone, "TypeError")
                ELSE IF In(K.database, intent_result) THEN Done(intent_result, "none")
                ELSE IF Truthy(intent_result) THEN Done(intent_result, "none")
                ELSE Done(PyDict(<<>>), "none")
    IN  Process(recognize_intent_by_api(question, "qwen", reply).ret)
(***************************************************************************)
(* app.py: retrieval, the answer LLM and POST /api/exam.                   *)
(***************************************************************************)
\* None, where a field of the request body is a name of the model.
NONE == "None"

FailAnswer == <<"u65e0", "u6cd5", "u751f", "u6210", "u7b54", "u6848">>

\* What the retriever and the answer LLM do on one request.
RagOutcomes ==
    [retrieval : {"ok"}, llm : {"ok"},
     content : {<<"B">>, <<" ", "B", "\n">>, <<"x", "C", "x">>, <<"x", "y">>}]
    \cup [retrieval : {"ok", "raise"}, llm : {"error"}, content : {<<>>}]

\* What requests.post does on the request of call_deepseek_api is a record
\* [kind, status, json]: it raises ConnectionError or Timeout (the kind), or
\* it returns a response (kind "response") with a status, on which
\* response.json() yields json.val when json.ok and raises otherwise.
\* The try block with a handler that catches the exceptions of requests
\* only.
call_deepseek_api_try_requests_only(response) ==
    LET Failed(exception) ==
            IF exception \in {"ConnectionError", "Timeout", "HTTPError", "JSONDecodeError"}
            THEN [ret |-> FailAnswer, exc |-> "none", posts |-> 1, caught |-> exception]
            ELSE [ret |-> <<>>, exc |-> exception, posts |-> 1, caught |-> "none"]
        Answered(body) ==
            LET Well(value, key) == value.t = "dict" /\ HasKey(value, key)
            IN  IF ~body.ok THEN Failed("JSONDecodeError")
                ELSE IF /\ Well(body.val, <<"c", "h", "o", "i", "c", "e", "s">>)
                        /\ DictGet(body.val, <<"c", "h", "o", "i", "c", "e", "s">>).t = "list"
                        /\ Len(DictGet(body.val, <<"c", "h", "o", "i", "c", "e", "s">>).items) >= 1
                        /\ Well(DictGet(body.val, <<"c", "h", "o", "i", "c", "e", "s">>).items[1].v, <<"m", "e", "s", "s", "a", "g", "e">>)
                        /\ Well(DictGet(DictGet(body.val, <<"c", "h", "o", "i", "c", "e", "s">>).items[1].v, <<"m", "e", "s", "s", "a", "g", "e">>),
                                <<"c", "o", "n", "t", "e", "n", "t">>)
                        /\ DictGet(DictGet(DictGet(body.val, <<"c", "h", "o", "i", "c", "e", "s">>).items[1].v, <<"m", "e", "s", "s", "a", "g", "e">>),
                                   <<"c", "o", "n", "t", "e", "n", "t">>).t = "str"
                THEN [ret |-> Strip(DictGet(DictGet(DictGet(body.val, <<"c", "h", "o", "i", "c", "e", "s">>).items[1].v,
                                                    <<"m", "e", "s", "s", "a", "g", "e">>), <<"c", "o", "n", "t", "e", "n", "t">>).s),
                      exc |-> "none", posts |-> 1, caught |-> "none"]
                ELSE Failed("KeyError")
    IN  IF response.kind # "response" THEN Failed(response.kind)
        ELSE IF response.status >= 400 /\ response.status < 600 THEN Failed("HTTPError")
        ELSE Answered(response.json)

\* call_deepseek_api, lines 246-254 of app.py (194-203 of main.py have the
\* same text): [ret, exc, posts, caught]. posts counts the calls of
\* requests.post, caught is the exception that the handler caught.
call_deepseek_api_try(response) ==
    LET Have(value) == [val |-> value, exc |-> "none"]
        Throw(exception) == [val |-> PyNone, exc |-> exception]
        \* value[key] for a str key.
        Key(from, key) ==
            IF from.exc # "none" THEN from
            ELSE IF from.val.t = "dict"
            THEN IF HasKey(from.val, key) THEN Have(DictGet(from.val, key))
                 ELSE Throw("KeyError")
            ELSE Throw("TypeError")
        \* value[0]
        First(from) ==
            IF from.exc # "none" THEN from
            ELSE IF from.val.t = "list"
            THEN IF Len(from.val.items) >= 1 THEN Have(from.val.items[1].v)
                 ELSE Throw("IndexError")
            ELSE IF from.val.t = "str"
            THEN IF Len(from.val.s) >= 1 THEN Have(PyStr(<<from.val.s[1]>>))
                 ELSE Throw("IndexError")
            ELSE IF from.val.t = "dict" THEN Throw("KeyError")
            ELSE Throw("TypeError")
        \* value.strip()
        Stripped(from) ==
            IF from.exc # "none" THEN from
            ELSE IF from.val.t = "str" THEN Have(PyStr(Strip(from.val.s)))
            ELSE Throw("AttributeError")
        \* Lines 252-254: except Exception.
        Handled(try) ==
            IF try.exc # "none"
            THEN [ret |-> FailAnswer, exc |-> "none", posts |-> 1, caught |-> try.exc]
            ELSE [ret |-> try.val.s, exc |-> "none", posts |-> 1, caught |-> "none"]
        \* Line 249: response.json()['choices'][0]['message']['content'].strip()
        Answer(body) ==
            IF ~body.ok THEN Throw("JSONDecodeError")
            ELSE Stripped(Key(Key(First(Key(Have(body.val), <<"c", "h", "o", "i", "c", "e", "s">>)), <<"m", "e", "s", "s", "a", "g", "e">>),
                              <<"c", "o", "n", "t", "e", "n", "t">>))
    IN  Handled(\* Lines 246-247: requests.post raises, or returns the response.
                IF response.kind # "response" THEN Throw(response.kind)
                \* Line 248: raise_for_status raises for a status from 400 to 599.
                ELSE IF response.status >= 400 /\ response.status < 600
                THEN Throw("HTTPError")
                ELSE Answer(response.json))

\* call_deepseek_api: the try block and its handler.
call_deepseek_api(rag) ==
    LET \* The outcome of the model as the response of requests.post.
        response ==
            IF rag.llm = "ok"
            THEN [kind |-> "response", status |-> 200,
                  json |-> [ok |-> TRUE,
                            val |-> PyDict(<<Item(<<"c", "h", "o", "i", "c", "e", "s">>, PyList(<<Item(<<>>, PyDict(<<Item(<<"m", "e", "s", "s", "a", "g", "e">>,
                                        PyDict(<<Item(<<"c", "o", "n", "t", "e", "n", "t">>, PyStr(rag.content))>>))>>))>>))>>)]]
            ELSE [kind |-> "ConnectionError", status |-> 0, json |-> [ok |-> FALSE]]
    IN  call_deepseek_api_try(response).ret

ChoiceAnswer(answer) ==
    LET \* Lines 272-280 of app.py (225-232 of main.py): the letter of a choice answer.
        ChoiceLetters == {"A", "B", "C", "D"}
    IN
    LET a == Strip(answer)
        hits == {i \in 1..Len(a) : a[i] \in ChoiceLetters}
    IN  IF Len(a) = 1 /\ a[1] \in ChoiceLetters THEN a
        ELSE IF hits # {}
             THEN <<a[CHOOSE i \in hits : \A j \in hits : i <= j]>>
             ELSE answer

\* get_answer: [ret, exc, retrievals, llm_calls].
get_answer(request_data, rag) ==
    IF "question" \notin request_data.keys
    THEN [ret |-> <<>>, exc |-> "none", retrievals |-> 0, llm_calls |-> 0]
    ELSE IF rag.retrieval = "raise"
    THEN [ret |-> <<>>, exc |-> "Exception", retrievals |-> 1, llm_calls |-> 0]
    ELSE LET answer == call_deepseek_api(rag)
         IN  [ret |-> IF request_data.category = "choice"
                      THEN ChoiceAnswer(answer) ELSE answer,
              exc |-> "none", retrievals |-> 1, llm_calls |-> 1]

required_fields == <<"segments", "paper", "id">>

\* The request bodies: text that is no JSON, a JSON object, a JSON array of
\* strings, a JSON number.  keys are the object's keys (the array's elements).
Bodies ==
    LET BodyKeys == {"segments", "paper", "id", "question"}
    IN
    [kind : {"object", "array"}, keys : SUBSET BodyKeys,
     category : {"choice", "essay", NONE}]
    \cup [kind : {"invalid", "number"}, keys : {{}}, category : {NONE}]

HttpResponse(status, detail, answer) ==
    [status |-> status, detail |-> detail, answer |-> answer]

MissingFields(raw_data) ==
    {i \in 1..Len(required_fields) : required_fields[i] \notin raw_data.keys}

\* Lines 287-304: the try block.  It yields a response, or the exception that
\* leaves it: [exc, status, detail, answer, get_answer_calls].
ExamTry(raw_data, rag) ==
    IF raw_data.kind = "invalid"
    THEN [exc |-> "JSONDecodeError", status |-> 0, detail |-> <<>>,
          answer |-> <<>>, get_answer_calls |-> 0]
    ELSE IF raw_data.kind = "number"
    THEN [exc |-> "TypeError", status |-> 0, detail |-> <<>>,
          answer |-> <<>>, get_answer_calls |-> 0]
    ELSE IF MissingFields(raw_data) # {}
    THEN LET first == CHOOSE i \in MissingFields(raw_data) :
                          \A j \in MissingFields(raw_data) : i <= j
         IN  [exc |-> "HTTPException", status |-> 400,
              detail |-> <<"Missing required field", required_fields[first]>>,
              answer |-> <<>>, get_answer_calls |-> 0]
    ELSE IF raw_data.kind = "array"
    THEN [exc |-> "TypeError", status |-> 0, detail |-> <<>>,
          answer |-> <<>>, get_answer_calls |-> 0]
    ELSE LET got == get_answer(raw_data, rag)
         IN  IF got.exc # "none"
             THEN [exc |-> got.exc, status |-> 0, detail |-> <<>>,
                   answer |-> <<>>, get_answer_calls |-> 1]
             ELSE [exc |-> "none", status |-> 200, detail |-> <<>>,
                   answer |-> got.ret, get_answer_calls |-> 1]

\* Lines 305-309: the except clauses, in order.
ExamExcept(tried) ==
    LET \* The exception classes of the handlers: every one of them, HTTPException
        \* included, is a subclass of Exception.
        ExceptionClasses ==
            {"JSONDecodeError", "TypeError", "HTTPException", "Exception",
             "AttributeError", "ValueError", "KeyError"}
    IN
    LET IsException(exception) == exception \in ExceptionClasses
    IN
    IF tried.exc = "none" THEN HttpResponse(tried.status, tried.detail, tried.answer)
    ELSE IF tried.exc = "JSONDecodeError"
    THEN HttpResponse(400, <<"Invalid JSON format">>, <<>>)
    ELSE IF IsException(tried.exc)
    THEN HttpResponse(500, <<"Internal server error">>, <<>>)
    ELSE HttpResponse(tried.status, tried.detail, <<>>)

handle_exam_request(raw_data, rag) ==
    LET tried == ExamTry(raw_data, rag)
    IN  [pc |-> "done", body |-> raw_data, rag |-> rag,
         response |-> ExamExcept(tried),
         get_answer_calls |-> tried.get_answer_calls]

HandleExamRequest ==
    /\ exam.pc = "idle"
    /\ \E raw_data \in Bodies, rag \in RagOutcomes :
          exam' = handle_exam_request(raw_data, rag)
    /\ UNCHANGED <<cdb, svc, rec, agent, qry, unit, srv>>


(***************************************************************************)
(* app.py, main.py: load_and_query.  The recalled documents are known by   *)
(* their place in the list the retriever returns; scores[i] is the score   *)
(* the cross-encoder gives to docs[i].                                     *)
(***************************************************************************)
\* search_kwargs={"k": 20}: the retriever returns at most k documents.
retriever_k == 20

\* The default of top_k, the only value the callers use.
top_k_default == 5

\* The values load_and_query can return: np.argsort orders the indices by
\* ascending score, and its default kind is not stable, so that indices of
\* equal score come in any order; the order is reversed and cut to top_k.
load_and_query_unranked(scores, top_k) ==
    {SubSeq(order, 1, IF top_k < Len(order) THEN top_k ELSE Len(order)) :
        order \in {[i \in 1..Len(scores) |-> i]}}

load_and_query(scores, top_k) ==
    LET RECURSIVE argsort(_)
        argsort(S) ==
            IF S = {} THEN {<<>>}
            ELSE UNION {{<<i>> \o rest : rest \in argsort(S \ {i})} :
                           i \in {i \in S : \A j \in S : scores[i] <= scores[j]}}
        Reversed(s) == [i \in 1..Len(s) |-> s[Len(s) + 1 - i]]
        Take(s, k) == SubSeq(s, 1, IF k < Len(s) THEN k ELSE Len(s))
    IN  {Take(Reversed(top_indices), top_k) : top_indices \in argsort(1..Len(scores))}

\* A call of load_and_query with the default top_k, on the documents that
\* the retriever recalls and the scores that the cross-encoder predicts.
LoadAndQuery ==
    /\ unit.op = "none"
    /\ \E n \in 1..(IF MaxDocs < retriever_k THEN MaxDocs ELSE retriever_k) :
          \E scores \in [1..n -> 0..MaxScore] :
             \E top_docs \in load_and_query(scores, top_k_default) :
                unit' = [op |-> "load_and_query", scores |-> scores,
                         top_k |-> top_k_default, ret |-> top_docs]
    /\ UNCHANGED <<cdb, svc, exam, rec, agent, qry, srv>>

(***************************************************************************)
(* main.py: process_query and POST /api/query.                             *)
(***************************************************************************)
\* call_deepseek_api of main.py: the try block and its handler.
main_call_deepseek_api(rag) ==
    LET \* The outcome of the model as the response of requests.post.
        response ==
            IF rag.llm = "ok"
            THEN [kind |-> "response", status |-> 200,
                  json |-> [ok |-> TRUE,
                            val |-> PyDict(<<Item(<<"c", "h", "o", "i", "c", "e", "s">>, PyList(<<Item(<<>>, PyDict(<<Item(<<"m", "e", "s", "s", "a", "g", "e">>,
                                        PyDict(<<Item(<<"c", "o", "n", "t", "e", "n", "t">>, PyStr(rag.content))>>))>>))>>))>>)]]
            ELSE [kind |-> "ConnectionError", status |-> 0, json |-> [ok |-> FALSE]]
    IN  call_deepseek_api_try(response).ret

\* What is outside the request during one process_query: the reply of the
\* model service to the recognition of the API path, the services and eval,
\* the retriever and the answer LLM.
Worlds == [reply : {RequestFails, Content(<<"{", "}">>), Content(<<"{", "\"", "u83b7", "u53d6", "u5f53", "u524d", "u65e5", "u671f", "u5de5", "u5177", "\"", ":", " ", "{", "}", "}">>),
                    Content(<<"{", "\"", "u6570", "u636e", "u5e93", "\"", ":", " ", "\"", "S", "E", "L", "E", "C", "T", " ", "1", "\"", "}">>)},
           env : {[http |-> "json", eval |-> "int"]},
           rag : RagOutcomes]

\* process_query: [path, intent, ret, exc, retrievals, llm_calls, calls].
\* path is the branch taken ("none" when the tests of the branches raise);
\* ToolAgent has neither execute_sql_query nor execute_tool_dependency_call.
process_query(question, category, reply, world) ==
    LET Routed(intent_result, agent_call, answer) ==
            LET Done(path, ret, exc, retrievals, llm_calls, calls) ==
                    [path |-> path, intent |-> intent_result, ret |-> ret, exc |-> exc,
                     retrievals |-> retrievals, llm_calls |-> llm_calls, calls |-> calls]
            IN  IF Truthy(intent_result)
                THEN IF ~InDefined(intent_result)
                     THEN Done("none", PyNone, "TypeError", 0, 0, <<>>)
                     ELSE IF In(K.database, intent_result)
                     THEN IF intent_result.t # "dict"
                          THEN Done("database", PyNone, "TypeError", 0, 0, <<>>)
                          ELSE Done("database", PyNone, "AttributeError", 0, 0, <<>>)
                     ELSE IF In(K.dependency, intent_result)
                     THEN Done("dependency", PyNone, "AttributeError", 0, 0, <<>>)
                     \* Lines 217-220: the tuple unpacking of the str returned.
                     ELSE IF agent_call.exc # "none"
                     THEN Done("api", PyNone, agent_call.exc, 0, 0, agent_call.calls)
                     ELSE IF Len(agent_call.ret.s) # 2
                     THEN Done("api", PyNone, "ValueError", 0, 0, agent_call.calls)
                     ELSE Done("api", PyStr(<<agent_call.ret.s[2]>>), "none", 0, 0,
                               agent_call.calls)
                ELSE IF world.rag.retrieval = "raise"
                THEN Done("rag", PyNone, "Exception", 1, 0, <<>>)
                ELSE Done("rag",
                          PyStr(IF category = "choice" THEN ChoiceAnswer(answer)
                                ELSE answer),
                          "none", 1, 1, <<>>)
    IN  Routed(recognize_intent(question, "deepseek", reply).ret,
               execute_and_generate_new_question(question, world.reply, world.env),
               main_call_deepseek_api(world.rag))

\* handle_query_request.
handle_query_request(request, reply, world) ==
    LET Response(done) ==
            [pc |-> "done", request |-> request, reply |-> reply, world |-> world,
             path |-> done.path, intent |-> done.intent, exc |-> done.exc,
             retrievals |-> done.retrievals, llm_calls |-> done.llm_calls,
             calls |-> done.calls,
             status |-> IF done.exc = "none" THEN 200 ELSE 500,
             body |-> IF done.exc = "none"
                      THEN [segments |-> request.segments, paper |-> request.paper,
                            id |-> request.id, answer |-> done.ret]
                      ELSE [segments |-> "", paper |-> "", id |-> 0, answer |-> PyNone]]
    IN  Response(process_query(request.question, request.category, reply, world))
(***************************************************************************)
(* The questions asked, the replies of the model service, and the calls.   *)
(***************************************************************************)
UserQuestions ==
    { <<"u8bf7", "u67e5", "u8be2", "u6240", "u6709", "u6210", "u529f", "u4ea4", "u6613", "u7684", "u5e73", "u5747", "u4ea4", "u6613", "u91d1", "u989d">>,
      <<"5", "0", "0", "0", "u65e5", "u5143", "u7b49", "u4e8e", "u591a", "u5c11", "u97e9", "u5143", "uff1f">>,
      <<"u4eca", "u5929", "u65e5", "u671f">>,
      <<"u534e", "u590f", "u94f6", "u884c", "u5b9a", "u4e49", "u7684", "u9884", "u501f", "u73b0", "u91d1", "u5305", "u62ec", "u54ea", "u4e9b", "u5177", "u4f53", "u5f62", "u5f0f", "uff1f">>,
      <<"u67e5", "u8be2", "u6237", "u53f7", "B", "J", "0", "0", "1", "2", "3", "4", "5", "6", "8", "u5728", "2", "0", "2", "5", "-", "0", "8", "u7684", "u7535", "u4f7f", "u7528", "u91cf", "u4e3a", "u591a", "u5c11", "u5ea6", "uff1f">>,
      <<"u8ba1", "u7b97", "2", "u7684", "u5e73", "u65b9", "u52a0", "u4e0a", "3", "u7684", "u7acb", "u65b9">>,
      <<"u521b", "u5efa", "u652f", "u4ed8", "u8ba2", "u5355", "uff0c", "u5546", "u6237", "u53f7", "M", "1", "2", "3", "4", "5", "6", "uff0c", "u8ba2", "u5355", "u53f7", "O", "R", "D", "2", "0", "2", "5", "0", "0", "1", "uff0c", "u91d1", "u989d", "1", "0", "0", ".", "5", "0", "u5143">>,
      <<"u67e5", "u8be2", "u4fe1", "u7528", "u5361", "6", "2", "1", "1", "1", "1", "1", "1", "1", "1", "1", "1", "1", "1", "1", "1", "u5728", "2", "0", "2", "5", "-", "0", "9", "u7684", "u8d26", "u5355">> }

\* What the model service writes where the prompt asks for JSON.
ReplyBodies ==
    { <<"{", "\"", "u6570", "u636e", "u5e93", "\"", ":", " ", "\"", "S", "E", "L", "E", "C", "T", " ", "1", "\"", "}">>,   \* {"数据库": "SELECT 1"}
      <<"{", "\"", "u5de5", "u5177", "u4f9d", "u8d56", "u8c03", "u7528", "\"", ":", " ", "{", "\"", "u6b65", "u9aa4", "\"", ":", " ", "\"", "1", "\"", "}", "}">>,   \* {"工具依赖调用": {"步骤": "1"}}
      <<"{", "\"", "u67e5", "u8be2", "u5de5", "u5177", "\"", ":", " ", "\"", "u6570", "u636e", "u5e93", "\"", "}">>,   \* {"查询工具": "数据库"}
      <<"{", "\"", "u6c47", "u7387", "u670d", "u52a1", "\"", ":", " ", "{", "\"", "f", "r", "o", "m", "C", "u", "r", "r", "e", "n", "c", "y", "\"", ":", " ", "\"", "J", "P", "Y", "\"", ",", " ", "\"", "t", "o", "C", "u", "r", "r", "e", "n", "c", "y", "\"", ":", " ", "\"", "K", "R", "W", "\"", ",", " ", "\"", "a", "m", "o", "u", "n", "t", "\"", ":", " ", "5", "0", "0", "0", "}", "}">>,   \* {"汇率服务": {"fromCurrency": "JPY", "toCurrency": "KRW", "amount": 5000}}
      <<"{", "\"", "u6c47", "u7387", "u670d", "u52a1", "\"", ":", " ", "{", "\"", "f", "r", "o", "m", "C", "u", "r", "r", "e", "n", "c", "y", "\"", ":", " ", "\"", "J", "P", "Y", "\"", "}", "}">>,   \* {"汇率服务": {"fromCurrency": "JPY"}}
      <<"{", "\"", "u4fe1", "u7528", "u5361", "u670d", "u52a1", "\"", ":", " ", "{", "}", "}">>,   \* {"信用卡服务": {}}
      <<"{", "\"", "u6c34", "u7535", "u7164", "u670d", "u52a1", "\"", ":", " ", "{", "\"", "h", "o", "u", "s", "e", "h", "o", "l", "d", "I", "d", "\"", ":", " ", "\"", "B", "J", "0", "0", "1", "\"", ",", " ", "\"", "m", "o", "n", "t", "h", "\"", ":", " ", "\"", "2", "0", "2", "5", "-", "0", "8", "\"", "}", "}">>,   \* {"水电煤服务": {"householdId": "BJ001", "month": "2025-08"}}
      <<"{", "\"", "u8ba1", "u7b97", "u5668", "u5de5", "u5177", "\"", ":", " ", "{", "\"", "e", "x", "p", "r", "e", "s", "s", "i", "o", "n", "\"", ":", " ", "\"", "2", "^", "2", "\"", "}", "}">>,   \* {"计算器工具": {"expression": "2^2"}}
      <<"{", "\"", "u83b7", "u53d6", "u5f53", "u524d", "u65e5", "u671f", "u5de5", "u5177", "\"", ":", " ", "{", "}", ",", " ", "\"", "u4fe1", "u7528", "u5361", "u670d", "u52a1", "\"", ":", " ", "{", "\"", "c", "a", "r", "d", "N", "u", "m", "b", "e", "r", "\"", ":", " ", "\"", "1", "\"", ",", " ", "\"", "m", "o", "n", "t", "h", "\"", ":", " ", "\"", "2", "\"", "}", "}">>,   \* {"获取当前日期工具": {}, "信用卡服务": {"cardNumber": "1", "month": "2"}}
      <<"{", "\"", "u6c47", "u7387", "u670d", "u52a1", "\"", ":", " ", "n", "u", "l", "l", "}">>,   \* {"汇率服务": null}
      <<"{", "\"", "u672a", "u77e5", "u5de5", "u5177", "\"", ":", " ", "{", "}", "}">>,   \* {"未知工具": {}}
      <<"{", "}">>,   \* {}
      <<"5">>,   \* 5
      <<"0">>,   \* 0
      <<"n", "u", "l", "l">>,   \* null
      <<"[", "]">>,   \* []
      <<"[", "\"", "u6570", "u636e", "u5e93", "\"", "]">>,   \* ["数据库"]
      <<"\"", "u6570", "u636e", "u5e93", "\"">>,   \* "数据库"
      <<"{", "\"", "u6570", "u636e", "u5e93", "\"">>,   \* {"数据库"
      <<"u62b1", "u6b49">>   \* 抱歉
    }

\* What it writes around the JSON: nothing, a fenced block, a fenced block in
\* prose, a block that is not closed, a block closed by other characters.
Wrappers ==
    { [pre |-> <<>>, post |-> <<>>],
      [pre |-> <<"u0060", "u0060", "u0060", "j", "s", "o", "n", "\n">>, post |-> <<"\n", "u0060", "u0060", "u0060">>],
      [pre |-> <<"u0060", "u0060", "u0060", "j", "s", "o", "n">>, post |-> <<"u0060", "u0060", "u0060">>],
      [pre |-> <<"u0060", "u0060", "u0060", "j", "s", "o", "n", "\n">>, post |-> <<"\n", "u0060", "u0060", "u0060", "\n">>],
      [pre |-> <<"o", "k", ":", "\n", "u0060", "u0060", "u0060", "j", "s", "o", "n", "\n">>, post |-> <<"\n", "u0060", "u0060", "u0060">>],
      [pre |-> <<"u0060", "u0060", "u0060", "j", "s", "o", "n", "\n">>, post |-> <<>>],
      [pre |-> <<"u0060", "u0060", "u0060", "j", "s", "o", "n">>, post |-> <<"x", "y", "z">>],
      [pre |-> <<" ">>, post |-> <<"\n">>] }

Wrapped(wrappers) ==
    {Content(w.pre \o body \o w.post) : w \in wrappers, body \in ReplyBodies}

Replies == {RequestFails, FieldsMissing} \cup Wrapped(Wrappers)

\* The replies to the recognitions of the agent and of process_query.
PlainReplies ==
    {RequestFails, FieldsMissing}
    \cup Wrapped({w \in Wrappers : w.pre = <<>> \/ w.post = <<"\n", "u0060", "u0060", "u0060">>})

RecDone(op, question, reply, done) ==
    [pc |-> "done", op |-> op, question |-> question, reply |-> reply,
     ret |-> done.ret, exc |-> done.exc, api |-> done.api, fallback |-> done.fallback]

\* A call of recognize_intent_by_api with the default api_choice.
RecognizeIntentByApi ==
    /\ rec.pc = "idle"
    /\ \E question \in UserQuestions, reply \in Replies :
          rec' = RecDone("recognize_intent_by_api", question, reply,
                         recognize_intent_by_api(question, "qwen", reply))
    /\ UNCHANGED <<cdb, svc, exam, agent, qry, unit, srv>>

\* A call of recognize_intent with the default api_choice.
RecognizeIntent ==
    /\ rec.pc = "idle"
    /\ \E question \in UserQuestions, reply \in Replies :
          rec' = RecDone("recognize_intent", question, reply,
                         recognize_intent(question, "deepseek", reply))
    /\ UNCHANGED <<cdb, svc, exam, agent, qry, unit, srv>>

ExecuteAndGenerateNewQuestion ==
    /\ agent.op = "none"
    /\ \E question \in UserQuestions, reply \in PlainReplies, env \in Environments :
          agent' = execute_and_generate_new_question(question, reply, env)
    /\ UNCHANGED <<cdb, svc, exam, rec, qry, unit, srv>>

ProcessQuestion ==
    /\ agent.op = "none"
    /\ \E question \in UserQuestions, reply \in PlainReplies :
          agent' = process_question(question, reply)
    /\ UNCHANGED <<cdb, svc, exam, rec, qry, unit, srv>>

HandleQueryRequest ==
    LET \* The requests that pass the validation of QueryRequest.
        QueryRequests(questions) ==
            [question : questions, segments : {"s1"}, paper : {"B"}, id : {7},
             category : {"choice", NONE}]
    IN
    /\ qry.pc = "idle"
    /\ \E request \in QueryRequests(UserQuestions), reply \in PlainReplies,
          world \in Worlds :
          qry' = handle_query_request(request, reply, world)
    /\ UNCHANGED <<cdb, svc, exam, rec, agent, unit, srv>>

ChatdbCall ==
    LET Questions == {"q1", "q2"}
    IN
    /\ cdb.pc = "idle"
    /\ \E question \in Questions, script \in Scripts :
          cdb' = chatdb(question, script)
    /\ UNCHANGED <<svc, exam, rec, agent, qry, unit, srv>>

Init ==
    LET CdbIdle == [ChatdbEntry("q1", <<>>) EXCEPT !.pc = "idle"]
    IN
    LET SvcIdle == [service |-> "none", args |-> <<>>, ret |-> PyNone, exc |-> "none", http |-> 0]
    IN
    LET ExamIdle ==
            [pc |-> "idle", body |-> [kind |-> "invalid", keys |-> {}, category |-> NONE],
             rag |-> [retrieval |-> "ok", llm |-> "error", content |-> <<>>],
             response |-> HttpResponse(0, <<>>, <<>>), get_answer_calls |-> 0]
    IN
    LET RecIdle == [pc |-> "idle", op |-> "none", question |-> <<>>, reply |-> RequestFails,
                    ret |-> PyNone, exc |-> "none", api |-> "none", fallback |-> FALSE]
    IN
    LET AgentIdle == AgentDone("none", <<>>, RequestFails, PyNone, PyNone, "none", <<>>)
    IN
    LET QryIdle == [pc |-> "idle"]
    IN
    /\ cdb = CdbIdle
    /\ svc = SvcIdle
    /\ exam = ExamIdle
    /\ rec = RecIdle
    /\ agent = AgentIdle
    /\ qry = QryIdle
    /\ unit = [op |-> "none"]
    \* Lines 60-63 of main.py: the globals are None until run_server runs.
    /\ srv = [serving |-> FALSE,
              globals |-> [EMBEDDINGS |-> NONE, VECTORSTORE |-> NONE,
                           CROSS_ENCODER |-> NONE, TOOL_AGENT |-> NONE],
              tables |-> <<>>,
              reqs |-> [r \in 1..MaxRequests |-> [pc |-> "idle"]]]

SpecChatdb == Init /\ [][ChatdbCall]_vars

SpecService ==
    Init /\ [][CreditCardBill \/ ExchangeRate \/ UtilityBill \/ UserAssets \/ PaymentOrder]_vars

SpecExam == Init /\ [][HandleExamRequest]_vars

SpecRecognizer == Init /\ [][RecognizeIntentByApi \/ RecognizeIntent]_vars

SpecAgent == Init /\ [][ExecuteAndGenerateNewQuestion \/ ProcessQuestion]_vars

SpecQuery == Init /\ [][HandleQueryRequest]_vars

(***************************************************************************)
(* The functions called on their own.                                      *)
(***************************************************************************)
\* The questions put to recognize_intent_by_rule: the questions of the
\* users, and questions that lack what a tool requires or that name a table
\* and a tool.
RuleQuestions ==
    UserQuestions
    \cup { <<"u4fe1", "u7528", "u5361", "u8d26", "u5355">>, <<"u4eca", "u5929", "u65e5", "u671f", "u7684", "u4fe1", "u7528", "u5361", "u8d26", "u5355">>, <<"u7528", "u6237", "u8d44", "u4ea7", "u67e5", "u8be2">>, <<"u652f", "u4ed8", "u8ba2", "u5355", "M", "1">>,
           <<"u67e5", "u8be2", "u4ea4", "u6613", "u8bb0", "u5f55", "u91cc", "u4fe1", "u7528", "u5361", "6", "2", "1", "1", "1", "1", "1", "1", "1", "1", "1", "1", "1", "1", "1", "1", "u7684", "u8d26", "u5355">>,
           <<"u4eca", "u5929", "u65e5", "u671f", "u7684", "u4ea4", "u6613", "u91d1", "u989d">>, <<"u8ba1", "u7b97", "(", "1", "+", "2", ")">>, <<"u4f60", "u597d">>,
           <<"1", "0", "0", "u7f8e", "u91d1", "u6362", "u6210", "u591a", "u5c11">>, <<"u673a", "u6784", "u540d", "u79f0", "u548c", "u6c47", "u7387">> }

\* Lines 203-218: the calls of extract_parameters that
\* recognize_intent_by_rule makes, in order, each with what it returns.
Extractions(question) ==
    LET RECURSIVE From(_)
        From(i) ==
            IF i > Len(api_tools_mapping) THEN <<>>
            ELSE IF AnyKeywordIn(api_tools_mapping[i].keywords, question)
            THEN <<Item(api_tools_mapping[i].name,
                        extract_parameters(question, api_tools_mapping[i].name))>>
                 \o From(i + 1)
            ELSE From(i + 1)
    IN  IF \E t \in 1..Len(database_keywords) :
              AnyKeywordIn(database_keywords[t], question)
        THEN <<>>
        ELSE From(1)

RecognizeIntentByRule ==
    /\ unit.op = "none"
    /\ \E question \in RuleQuestions :
          unit' = [op |-> "recognize_intent_by_rule", question |-> question,
                   ret |-> recognize_intent_by_rule(question),
                   extracted |-> Extractions(question)]
    /\ UNCHANGED <<cdb, svc, exam, rec, agent, qry, srv>>

\* A call of the exchange-rate branch of extract_parameters on a question
\* that names an amount and two names of currency_mapping that stand for
\* different currencies, as the questions of test_questions do.
ExtractParameters ==
    /\ unit.op = "none"
    /\ \E a, b \in 1..Len(currency_mapping), amount \in {<<"5", "0", "0", "0">>, <<"1", ".", "5">>},
          connective \in {<<"u7b49", "u4e8e", "u591a", "u5c11">>, <<"u5151", "u6362">>, <<"u6362", "u6210">>}, mark \in {<<>>, <<"uff1f">>} :
          /\ currency_mapping[a].code # currency_mapping[b].code
          /\ LET question == amount \o currency_mapping[a].name \o connective
                                \o currency_mapping[b].name \o mark
             IN  unit' = [op |-> "extract_parameters", tool_name |-> TOOL.exchange_rate,
                          question |-> question,
                          first |-> currency_mapping[a], second |-> currency_mapping[b],
                          ret |-> extract_parameters(question, TOOL.exchange_rate)]
    /\ UNCHANGED <<cdb, svc, exam, rec, agent, qry, srv>>

\* A call of execute_tool: every tool name and a name that is no tool, with
\* parameter maps that hold all, some or none of the parameters (a missing
\* one reaches the service as None), values outside the allowed sets, a value
\* that cannot be hashed, and values that are no map.
ExecuteTool ==
    LET Maps(items) ==
            {PyDict(SelectSeq(items, LAMBDA item : item.k \in keys)) :
                keys \in SUBSET {items[i].k : i \in 1..Len(items)}}
        ParamMaps ==
            Maps(<<Item(P.cardNumber, PyStr(<<"6", "2", "1", "1", "1", "1", "1", "1", "1", "1", "1", "1", "1", "1", "1", "1">>)),
                   Item(P.month, PyStr(<<"2", "0", "2", "5", "-", "0", "9">>))>>)
            \cup Maps(<<Item(P.fromCurrency, PyStr(<<"j", "p", "y">>)), Item(P.toCurrency, PyStr(<<"K", "R", "W">>)),
                        Item(P.amount, PyNum(<<"5", "0", "0", "0", ".", "0">>))>>)
            \cup Maps(<<Item(P.fromCurrency, PyStr(<<"X", "Y", "Z">>)), Item(P.toCurrency, PyStr(<<"K", "R", "W">>))>>)
            \cup Maps(<<Item(P.householdId, PyStr(<<"B", "J", "0", "0", "1", "2", "3", "4", "5", "6", "8">>)), Item(P.month, PyStr(<<"2", "0", "2", "5", "-", "0", "8">>)),
                        Item(P.utilityType, PyStr(<<"w", "a", "t", "e", "r">>))>>)
            \cup Maps(<<Item(P.householdId, PyStr(<<"B", "J", "0", "0", "1", "2", "3", "4", "5", "6", "8">>)), Item(P.month, PyStr(<<"2", "0", "2", "5", "-", "0", "8">>)),
                        Item(P.utilityType, PyList(<<>>))>>)
            \cup Maps(<<Item(P.customerId, PyStr(<<"1", "1", "0", "1", "0", "1", "1", "9", "9", "0", "0", "3", "0", "7", "2", "8", "4", "5">>)),
                        Item(P.assetType, PyStr(<<"s", "t", "o", "c", "k">>))>>)
            \cup Maps(<<Item(P.merchantId, PyStr(<<"M", "1", "2", "3", "4", "5", "6">>)), Item(P.orderId, PyStr(<<"O", "R", "D", "2", "0", "2", "5", "0", "0", "1">>)),
                        Item(P.amount, PyNum(<<"1", "0", "0", ".", "5">>))>>)
            \cup Maps(<<Item(P.expression, PyStr(<<"1", "/", "0">>))>>)
            \cup {PyNone, PyStr(K.database)}
    IN  /\ unit.op = "none"
        /\ \E i \in 1..(Len(api_tools_mapping) + 1), params \in ParamMaps,
              env \in Environments :
              LET Called(tool_name, done) ==
                      [op |-> "execute_tool", tool_name |-> tool_name, params |-> params,
                       env |-> env, ret |-> done.ret, exc |-> done.exc, http |-> done.http,
                       service |-> done.service, caught |-> done.caught]
                  Name == IF i > Len(api_tools_mapping) THEN K.query_tool
                          ELSE api_tools_mapping[i].name
              IN  unit' = Called(Name, execute_tool(Name, params, env))
        /\ UNCHANGED <<cdb, svc, exam, rec, agent, qry, srv>>

\* A call of LocalTools.calculator: expressions of the test questions,
\* expressions with characters outside the allow-list, at the end and in the
\* middle, an expression that is no str, and every outcome of eval.
Calculator ==
    LET Expressions ==
            {PyStr(<<"1", "+", "1">>), PyStr(<<"1", " ", "+", " ", "2", " ", "u7b49", "u4e8e", "u591a", "u5c11">>), PyStr(<<"2", "u7684", "u5e73", "u65b9">>), PyStr(<<"2", "^", "3">>),
             PyStr(<<"1", "/", "0">>), PyStr(<<"s", "q", "r", "t", "(", "1", "6", ")">>), PyStr(<<"1", "+">>), PyStr(<<>>),
             PyStr(<<"_", "_", "i", "m", "p", "o", "r", "t", "_", "_", "(", "'", "o", "s", "'", ")">>), PyStr(<<"1", "+", "1", ";", "2">>), PyStr(<<"(", "1", ")", ".", "r", "e", "a", "l">>),
             PyStr(<<"1", "+", "1">> \o <<"\n">>), PyStr(<<"1", "+", "1">> \o <<"\n", "\n">>),
             PyStr(<<"\n">> \o <<"1", "+", "1">>), PyNone}
    IN  /\ unit.op = "none"
        /\ \E expression \in Expressions, outcome \in {env.eval : env \in Environments} :
              LET Called(done) ==
                      [op |-> "calculator", expression |-> expression, outcome |-> outcome,
                       ret |-> done.ret, evaluated |-> done.evaluated]
              IN  unit' = Called(LocalTools_calculator(expression, outcome))
        /\ UNCHANGED <<cdb, svc, exam, rec, agent, qry, srv>>

\* A call of call_deepseek_api: requests.post raises, or the service answers
\* with a status and a body: a chat completion, a completion with a part
\* missing or of another type, an error object, or text that is no JSON.
CallDeepseekApi ==
    LET Statuses == {200, 300, 404, 500}
        AnswerBodies == <<
            <<"{", "\"", "c", "h", "o", "i", "c", "e", "s", "\"", ":", " ", "[", "{", "\"", "m", "e", "s", "s", "a", "g", "e", "\"", ":", " ", "{", "\"", "r", "o", "l", "e", "\"", ":", " ", "\"", "a", "s", "s", "i", "s", "t", "a", "n", "t", "\"", ",", " ", "\"", "c", "o", "n", "t", "e", "n", "t", "\"", ":", " ", "\"", " ", "B", " ", " ", "\"", "}", "}", "]", "}">>,   \* {"choices": [{"message": {"role": "assistant", "content": " B  "}}]}
            <<"{", "\"", "c", "h", "o", "i", "c", "e", "s", "\"", ":", " ", "[", "{", "\"", "m", "e", "s", "s", "a", "g", "e", "\"", ":", " ", "{", "\"", "c", "o", "n", "t", "e", "n", "t", "\"", ":", " ", "\"", "u6839", "u636e", "u5df2", "u6709", "u77e5", "u8bc6", "u65e0", "u6cd5", "u56de", "u7b54", "\"", "}", "}", ",", " ", "{", "\"", "m", "e", "s", "s", "a", "g", "e", "\"", ":", " ", "{", "}", "}", "]", "}">>,   \* {"choices": [{"message": {"content": "根据已有知识无法回答"}}, {"message": {}}]}
            <<"{", "\"", "c", "h", "o", "i", "c", "e", "s", "\"", ":", " ", "[", "{", "\"", "m", "e", "s", "s", "a", "g", "e", "\"", ":", " ", "{", "\"", "c", "o", "n", "t", "e", "n", "t", "\"", ":", " ", "n", "u", "l", "l", "}", "}", "]", "}">>,   \* {"choices": [{"message": {"content": null}}]}
            <<"{", "\"", "c", "h", "o", "i", "c", "e", "s", "\"", ":", " ", "[", "{", "\"", "m", "e", "s", "s", "a", "g", "e", "\"", ":", " ", "{", "\"", "c", "o", "n", "t", "e", "n", "t", "\"", ":", " ", "5", "}", "}", "]", "}">>,   \* {"choices": [{"message": {"content": 5}}]}
            <<"{", "\"", "c", "h", "o", "i", "c", "e", "s", "\"", ":", " ", "[", "{", "\"", "m", "e", "s", "s", "a", "g", "e", "\"", ":", " ", "{", "}", "}", "]", "}">>,   \* {"choices": [{"message": {}}]}
            <<"{", "\"", "c", "h", "o", "i", "c", "e", "s", "\"", ":", " ", "[", "{", "\"", "m", "e", "s", "s", "a", "g", "e", "\"", ":", " ", "\"", "B", "\"", "}", "]", "}">>,   \* {"choices": [{"message": "B"}]}
            <<"{", "\"", "c", "h", "o", "i", "c", "e", "s", "\"", ":", " ", "[", "]", "}">>,   \* {"choices": []}
            <<"{", "\"", "c", "h", "o", "i", "c", "e", "s", "\"", ":", " ", "\"", "B", "\"", "}">>,   \* {"choices": "B"}
            <<"{", "\"", "e", "r", "r", "o", "r", "\"", ":", " ", "{", "\"", "m", "e", "s", "s", "a", "g", "e", "\"", ":", " ", "\"", "A", "u", "t", "h", "e", "n", "t", "i", "c", "a", "t", "i", "o", "n", " ", "F", "a", "i", "l", "s", "\"", "}", "}">>,   \* {"error": {"message": "Authentication Fails"}}
            <<"[", "]">>,   \* []
            <<"<", "h", "t", "m", "l", ">", "B", "a", "d", " ", "G", "a", "t", "e", "w", "a", "y", "<", "/", "h", "t", "m", "l", ">">>,   \* <html>Bad Gateway</html>
            <<>> >>
        Called(response, body, done) ==
            [op |-> "call_deepseek_api", response |-> response, body |-> body,
             ret |-> done.ret, exc |-> done.exc, posts |-> done.posts,
             caught |-> done.caught]
    IN  /\ unit.op = "none"
        /\ \/ \E exception \in {"ConnectionError", "Timeout"} :
                 LET Fails(response) ==
                         Called(response, <<>>, call_deepseek_api_try(response))
                 IN  unit' = Fails([kind |-> exception, status |-> 0, json |-> [ok |-> FALSE]])
           \/ \E status \in Statuses, i \in 1..Len(AnswerBodies) :
                 LET Answers(response) ==
                         Called(response, AnswerBodies[i], call_deepseek_api_try(response))
                     Json(parsed) == IF parsed.ok THEN [ok |-> TRUE, val |-> parsed.val]
                                     ELSE [ok |-> FALSE]
                 IN  unit' = Answers([kind |-> "response", status |-> status,
                                      json |-> Json(json_loads(AnswerBodies[i]))])
        /\ UNCHANGED <<cdb, svc, exam, rec, agent, qry, srv>>

SpecCalls ==
    Init /\ [][LoadAndQuery \/ RecognizeIntentByRule \/ ExtractParameters \/ ExecuteTool
                 \/ Calculator \/ CallDeepseekApi]_vars

(***************************************************************************)
(* main.py as a server: run_server, then requests handled side by side.    *)
(* A request takes two steps, the recognition of line 208 and the rest of  *)
(* process_query, and the steps of the requests interleave.                *)
(***************************************************************************)
\* run_server, lines 253-296: it assigns the four globals, the ToolAgent
\* with the tables of its IntentRecognizer, and then serves.
RunServer ==
    /\ ~srv.serving
    /\ srv' = [srv EXCEPT
                  !.serving = TRUE,
                  !.globals = [EMBEDDINGS |-> "HuggingFaceEmbeddings",
                               VECTORSTORE |-> "FAISS",
                               CROSS_ENCODER |-> "CrossEncoder",
                               TOOL_AGENT |-> "ToolAgent"],
                  !.tables = <<database_keywords, api_tools_mapping>>]
    /\ UNCHANGED <<cdb, svc, exam, rec, agent, qry, unit>>

\* The recognition of a handler that gives up the agent when it is done.
Recognize_releasing_agent(r) ==
    LET QueryRequests ==
            [question : {<<"u4eca", "u5929", "u65e5", "u671f">>, <<"u534e", "u590f", "u94f6", "u884c", "u5b9a", "u4e49", "u7684", "u9884", "u501f", "u73b0", "u91d1", "u5305", "u62ec", "u54ea", "u4e9b", "u5177", "u4f53", "u5f62", "u5f0f", "uff1f">>},
             segments : {"s1"}, paper : {"B"}, id : {7}, category : {NONE}]
        Recognized(request, world, intent) ==
            [pc |-> "recognized", request |-> request, reply |-> RequestFails,
             world |-> world, intent |-> [ret |-> intent.ret, exc |-> intent.exc]]
    IN  /\ srv.serving
        /\ srv.reqs[r].pc = "idle"
        /\ \E request \in QueryRequests, world \in {w \in Worlds : w.reply = RequestFails} :
              srv' = [srv EXCEPT
                         !.globals.TOOL_AGENT = NONE,
                         !.reqs[r] =
                             IF srv.globals.TOOL_AGENT = NONE
                             THEN Recognized(request, world,
                                             [ret |-> PyNone, exc |-> "AttributeError"])
                             ELSE Recognized(request, world,
                                             recognize_intent(request.question, "deepseek",
                                                              RequestFails))]
        /\ UNCHANGED <<cdb, svc, exam, rec, agent, qry, unit>>

\* A request arrives and process_query runs line 208: it reads TOOL_AGENT
\* and the recognizer reads its tables; nothing shared is assigned.
Recognize(r) ==
    LET QueryRequests ==
            [question : {<<"u4eca", "u5929", "u65e5", "u671f">>, <<"u534e", "u590f", "u94f6", "u884c", "u5b9a", "u4e49", "u7684", "u9884", "u501f", "u73b0", "u91d1", "u5305", "u62ec", "u54ea", "u4e9b", "u5177", "u4f53", "u5f62", "u5f0f", "uff1f">>},
             segments : {"s1"}, paper : {"B"}, id : {7}, category : {NONE}]
        Recognized(request, world, intent) ==
            [pc |-> "recognized", request |-> request, reply |-> RequestFails,
             world |-> world, intent |-> [ret |-> intent.ret, exc |-> intent.exc]]
    IN  /\ srv.serving
        /\ srv.reqs[r].pc = "idle"
        /\ \E request \in QueryRequests, world \in {w \in Worlds : w.reply = RequestFails} :
              srv' = [srv EXCEPT
                         !.reqs[r] =
                             \* None has no attribute intent_recognizer.
                             IF srv.globals.TOOL_AGENT = NONE
                             THEN Recognized(request, world,
                                             [ret |-> PyNone, exc |-> "AttributeError"])
                             ELSE Recognized(request, world,
                                             recognize_intent(request.question, "deepseek",
                                                              RequestFails))]
        /\ UNCHANGED <<cdb, svc, exam, rec, agent, qry, unit>>

\* Lines 210-232 and the handler of lines 234-251: the request is routed on
\* its intent and answered; load_and_query reads VECTORSTORE and
\* CROSS_ENCODER on the knowledge path; nothing shared is assigned.
Answer(r) ==
    LET req == srv.reqs[r]
        Done(response) ==
            [pc |-> "done", request |-> req.request, reply |-> req.reply,
             world |-> req.world, intent |-> req.intent, response |-> response]
        Failed(path, exception) ==
            [status |-> 500, path |-> path, exc |-> exception,
             body |-> [segments |-> "", paper |-> "", id |-> 0, answer |-> PyNone]]
        Answered(alone) ==
            IF req.intent.exc # "none" THEN Failed("none", req.intent.exc)
            \* None has neither as_retriever nor predict.
            ELSE IF /\ alone.path = "rag"
                    /\ NONE \in {srv.globals.VECTORSTORE, srv.globals.CROSS_ENCODER}
            THEN Failed("rag", "AttributeError")
            ELSE [status |-> alone.status, path |-> alone.path, exc |-> alone.exc,
                  body |-> alone.body]
    IN  /\ srv.serving
        /\ srv.reqs[r].pc = "recognized"
        /\ srv' = [srv EXCEPT
                      !.reqs[r] = Done(Answered(handle_query_request(
                                           srv.reqs[r].request, srv.reqs[r].reply,
                                           srv.reqs[r].world)))]
        /\ UNCHANGED <<cdb, svc, exam, rec, agent, qry, unit>>

SpecServer ==
    Init /\ [][RunServer \/ \E r \in 1..MaxRequests : Recognize(r) \/ Answer(r)]_vars

(***************************************************************************)
(* The claims.                                                             *)
(***************************************************************************)

\* C1: every invocation of chatdb issues at most a fixed number of LLM
\* requests, whatever the attempts' outcomes, and then returns.
C1_BoundedRequestsThenReturns ==
    cdb.pc # "idle" =>
        /\ cdb.outcome = "return"
        /\ Len(cdb.requests) <= StateBound

\* C2: every invocation of chatdb issues at least one LLM request and
\* executes the SQL of the reply before it returns or raises.
C2_FirstAttemptAlwaysMade ==
    cdb.pc # "idle" =>
        /\ Len(cdb.requests) >= 1
        /\ Len(cdb.executed) >= 1

\* C4: chatdb returns (think, result) exactly when some attempt's SQL
\* executed; when every attempt failed it returns ('', failure text) and
\* does not raise.
C4_ReturnsResultIffSucceeded ==
    cdb.pc # "idle" =>
        LET succeeded == \E i \in 1..Len(cdb.attempts) : cdb.attempts[i] = "succeeded"
        IN  /\ cdb.outcome = "return"
            /\ succeeded <=> (Len(cdb.ret) = 2 /\ cdb.ret[2] = "rows")
            /\ ~succeeded =>
                  (Len(cdb.ret) = 3 /\ cdb.ret[1] = "" /\ cdb.ret[2] = "sql_generation_failed")

\* The arguments of a call name every required parameter and lie in the
\* sets the operation allows.
PassesValidation(call) ==
    LET Given(k) == call.args[k].t # "none"
        Among(k, allowed) == call.args[k].t = "str" /\ call.args[k].s \in allowed
    IN  CASE call.service = "credit_card" -> Given(1) /\ Given(2)
          [] call.service = "exchange_rate" ->
                /\ call.args[1].t = "str" /\ call.args[2].t = "str"
                /\ Upper(call.args[1].s) \in SUPPORTED_CURRENCIES
                /\ Upper(call.args[2].s) \in SUPPORTED_CURRENCIES
          [] call.service = "utility_bill" ->
                Given(1) /\ Given(2) /\ Among(3, utilityTypeS)
          [] call.service = "user_assets" -> Given(1) /\ Among(2, assetTypeS)
          [] call.service = "payment_order" -> Given(1) /\ Given(2)
          [] OTHER -> FALSE

KeysOf(d) == {d.items[i].k : i \in 1..Len(d.items)}

\* The value returned is the payload that the class of the service builds:
\* it has the keys of that payload and repeats the arguments of the call.
OwnMockPayload(call) ==
    LET r == call.ret
        a == call.args
        Echo(key, k) == HasKey(r, key) /\ DictGet(r, key) = a[k]
    IN  /\ r.t = "dict"
        /\ CASE call.service = "credit_card" ->
                  /\ {<<"t", "o", "t", "a", "l", "A", "m", "o", "u", "n", "t">>, <<"t", "r", "a", "n", "s", "a", "c", "t", "i", "o", "n", "s">>, <<"m", "i", "n", "P", "a", "y", "m", "e", "n", "t">>} \subseteq KeysOf(r)
                  /\ Echo(P.cardNumber, 1) /\ Echo(P.month, 2)
             [] call.service = "exchange_rate" ->
                  /\ {<<"e", "x", "c", "h", "a", "n", "g", "e", "R", "a", "t", "e">>, <<"c", "o", "n", "v", "e", "r", "t", "e", "d", "A", "m", "o", "u", "n", "t">>} \subseteq KeysOf(r)
                  /\ DictGet(r, P.fromCurrency) = PyStr(Upper(a[1].s))
                  /\ DictGet(r, P.toCurrency) = PyStr(Upper(a[2].s))
                  /\ Echo(P.amount, 3)
             [] call.service = "utility_bill" ->
                  /\ {<<"u", "s", "a", "g", "e">>, <<"u", "n", "i", "t", "P", "r", "i", "c", "e">>} \subseteq KeysOf(r)
                  /\ Echo(P.householdId, 1) /\ Echo(P.month, 2) /\ Echo(P.utilityType, 3)
             [] call.service = "user_assets" ->
                  /\ <<"t", "o", "t", "a", "l", "A", "s", "s", "e", "t", "s">> \in KeysOf(r)
                  /\ Echo(P.customerId, 1) /\ Echo(P.assetType, 2)
             [] call.service = "payment_order" ->
                  /\ {<<"o", "r", "d", "e", "r", "S", "t", "a", "t", "u", "s">>, <<"p", "a", "y", "m", "e", "n", "t", "U", "r", "l">>} \subseteq KeysOf(r)
                  /\ Echo(P.merchantId, 1) /\ Echo(P.orderId, 2)
                  /\ a[3].t # "none" => Echo(P.amount, 3)
             [] OTHER -> FALSE

\* C9: while TEST_MODE is True no service call invokes session.get, and
\* every call that passes validation returns the mock payload of its own
\* service, with status 'success' and the request parameters.
C9_TestModeNeverRequests ==
    TEST_MODE =>
        /\ svc.http = 0
        /\ PassesValidation(svc) =>
              /\ svc.exc = "none"
              /\ OwnMockPayload(svc)
              /\ DictGetOr(svc.ret, <<"s", "t", "a", "t", "u", "s">>, PyNone) = PyStr(<<"s", "u", "c", "c", "e", "s", "s">>)

C9_Witness ==
    /\ svc.service = "exchange_rate"
    /\ PassesValidation(svc)
    /\ svc.args[1] = PyStr(<<"u", "s", "d">>)
    /\ svc.exc = "none"
    /\ DictGetOr(svc.ret, P.fromCurrency, PyNone) = PyStr(<<"U", "S", "D">>)

\* C10: POST /api/exam with a JSON object lacking one of segments, paper, id
\* is answered 400 'Missing required field: <first missing field>', and
\* get_answer is not invoked.
C10_MissingFieldIs400 ==
    (exam.pc = "done" /\ exam.body.kind = "object" /\ MissingFields(exam.body) # {}) =>
        /\ exam.response.status = 400
        /\ exam.response.detail =
              <<"Missing required field",
                required_fields[CHOOSE i \in MissingFields(exam.body) :
                                   \A j \in MissingFields(exam.body) : i <= j]>>
        /\ exam.get_answer_calls = 0


\* k in intent, FALSE where the test is not defined.
ContainsKey(intent, k) == InDefined(intent) /\ In(k, intent)

\* The path that the intent result selects.
ExpectedPath(intent) ==
    IF ~Truthy(intent) THEN "rag"
    ELSE IF ContainsKey(intent, K.database) THEN "database"
    ELSE IF ContainsKey(intent, K.dependency) THEN "dependency"
    ELSE "api"

\* C5: process_query routes every question to exactly one path, chosen by
\* the intent result alone: database on the key '数据库', dependency on the key
\* '工具依赖调用', API tool on any other non-empty result, RAG if and only if
\* the result is empty; the vector store and the answer LLM are never called
\* on a non-empty intent result.
C5_OnePathByIntent ==
    qry.pc = "done" =>
        /\ qry.path = ExpectedPath(qry.intent)
        /\ (qry.retrievals > 0 \/ qry.llm_calls > 0) => ~Truthy(qry.intent)

\* A tool that process_query executed reported an error.
SomeToolFailed == \E i \in 1..Len(qry.calls) : In(K.error, qry.calls[i].ret)

\* C6: for every non-empty intent result POST /api/query answers 200 with
\* segments, paper, id and the answer of the ToolAgent operation; it answers
\* 500 only when the selected tool or query itself failed.
C6_NonEmptyIntentAnswers200 ==
    (qry.pc = "done" /\ Truthy(qry.intent)) =>
        \/ /\ qry.status = 200
           /\ qry.body.segments = qry.request.segments
           /\ qry.body.paper = qry.request.paper
           /\ qry.body.id = qry.request.id
           /\ qry.body.answer.t = "str"
        \/ /\ qry.status = 500
           /\ SomeToolFailed

\* The content of the reply is JSON, bare or inside a closed fenced block.
BareJson(reply) == reply.kind = "content" /\ json_loads(reply.content).ok

FencedJson(reply) ==
    /\ reply.kind = "content"
    /\ FirstJsonBlock(reply.content).found
    /\ json_loads(Strip(FirstJsonBlock(reply.content).text)).ok

\* C7: recognize_intent_by_api never raises; when the request fails, the
\* response lacks the expected fields, or the content is no JSON, bare or
\* inside a fenced block, it returns recognize_intent_by_rule(question); it
\* returns a parsed value only when the content parses as JSON.
C7_RuleUnlessContentIsJson ==
    rec.pc = "done" =>
        /\ rec.exc = "none"
        /\ ~(BareJson(rec.reply) \/ FencedJson(rec.reply)) =>
              rec.ret = recognize_intent_by_rule(rec.question)
        /\ rec.ret # recognize_intent_by_rule(rec.question) =>
              \/ BareJson(rec.reply) /\ rec.ret = json_loads(rec.reply.content).val
              \/ /\ FencedJson(rec.reply)
                 /\ rec.ret = json_loads(Strip(FirstJsonBlock(rec.reply.content).text)).val

\* The recognition result of a database query: the form the model replies
\* with, and the form of recognize_intent_by_rule.
ClassifiedDatabase(intent) ==
    \/ intent.t = "dict" /\ HasKey(intent, K.database)
    \/ intent = PyDict(<<Item(K.query_tool, PyStr(K.database))>>)

\* C8: whenever recognition classifies the question as a database query, by
\* the model reply or by the rule-based fallback,
\* execute_and_generate_new_question executes no tool and returns the
\* pass-through text with the question and the recognition result, and
\* process_question returns the recognition result unchanged.
C8_DatabaseIntentPassesThrough ==
    (agent.op # "none" /\ ClassifiedDatabase(agent.intent)) =>
        /\ agent.exc = "none"
        /\ agent.op = "execute_and_generate_new_question" =>
              /\ agent.calls = <<>>
              /\ agent.ret.t = "str"
              /\ Contains(agent.ret.s, agent.question)
              /\ Contains(agent.ret.s, Str(agent.intent))
        /\ agent.op = "process_question" => agent.ret = agent.intent

\* C11: load_and_query returns min(top_k, n) of the n <= 20 recalled
\* documents: each returned one is a recalled one, none is returned twice,
\* they are in non-increasing order of score, and every recalled document
\* left out scores no higher than every returned one.
C11_TopKByScore ==
    unit.op = "load_and_query" =>
        LET n == Len(unit.scores)
            ret == unit.ret
            returned == {ret[i] : i \in 1..Len(ret)}
        IN  /\ n <= retriever_k
            /\ Len(ret) = (IF unit.top_k < n THEN unit.top_k ELSE n)
            /\ returned \subseteq 1..n
            /\ \A i, j \in 1..Len(ret) : i # j => ret[i] # ret[j]
            /\ \A i, j \in 1..Len(ret) :
                  i < j => unit.scores[ret[i]] >= unit.scores[ret[j]]
            /\ \A d \in (1..n) \ returned :
                  \A i \in 1..Len(ret) : unit.scores[d] <= unit.scores[ret[i]]

\* More documents than top_k are recalled, with different scores, and one
\* of the highest score is recalled last.
C11_Witness ==
    /\ unit.op = "load_and_query"
    /\ Len(unit.scores) > unit.top_k
    /\ unit.scores[Len(unit.scores)] = MaxScore
    /\ unit.scores[1] = 0
    /\ unit.ret[1] = Len(unit.scores)
    /\ Len(unit.ret) = unit.top_k

\* The result of recognize_intent_by_rule for a question with a database
\* keyword.
DatabaseFormat == PyDict(<<Item(K.query_tool, PyStr(K.database))>>)

\* The parameters extracted for a tool hold all it requires.
HasRequired(tool_info, params) ==
    \A k \in 1..Len(tool_info.required_params) :
        HasKey(params, tool_info.required_params[k])

C13_ReturnsMapping ==
    rec.pc = "done" => (rec.exc = "none" /\ rec.ret.t = "dict")

\* The question contains a keyword of one of the three tables.
HasDatabaseKeyword(question) ==
    \E t \in 1..Len(database_keywords) :
        \E k \in 1..Len(database_keywords[t]) :
            Contains(question, database_keywords[t][k])

\* C14: in recognize_intent_by_rule a question with a keyword of any of the
\* three tables yields the database format; no API tool is matched and
\* extract_parameters is not called, also when the question contains
\* keywords of API tools.
C14_DatabaseKeywordsFirst ==
    (unit.op = "recognize_intent_by_rule" /\ HasDatabaseKeyword(unit.question)) =>
        /\ unit.ret = DatabaseFormat
        /\ unit.extracted = <<>>

\* A question with a keyword of a table and the keywords and parameters of
\* an API tool.
C14_Witness ==
    /\ unit.op = "recognize_intent_by_rule"
    /\ HasDatabaseKeyword(unit.question)
    /\ AnyKeywordIn(api_tools_mapping[1].keywords, unit.question)
    /\ HasRequired(api_tools_mapping[1],
                   extract_parameters(unit.question, api_tools_mapping[1].name))
    /\ unit.ret = DatabaseFormat

\* C15: for a question that names two different currencies the
\* exchange-rate branch of extract_parameters sets fromCurrency to the code
\* of the currency named first and toCurrency to the code of the one named
\* second, for every two names of the currency table.
C15_FirstToSecondCurrency ==
    unit.op = "extract_parameters" =>
        /\ DictGetOr(unit.ret, P.fromCurrency, PyNone) = PyStr(unit.first.code)
        /\ DictGetOr(unit.ret, P.toCurrency, PyNone) = PyStr(unit.second.code)

\* {'error': text} where text begins with the given words.
ErrorBeginning(value, words) ==
    /\ value.t = "dict"
    /\ Len(value.items) = 1
    /\ value.items[1].k = K.error
    /\ value.items[1].v.t = "str"
    /\ Len(value.items[1].v.s) >= Len(words)
    /\ SubSeq(value.items[1].v.s, 1, Len(words)) = words

\* C16: execute_tool returns a dict and never raises, for every tool name
\* and every parameter map, required parameters missing included; a name
\* that is no tool yields {'error': '未知的工具: <name>'} and no service is
\* invoked; an exception inside a service yields
\* {'error': '工具执行错误: ...'}.
C16_ExecuteToolIsTotal ==
    unit.op = "execute_tool" =>
        /\ unit.exc = "none"
        /\ unit.ret.t = "dict"
        /\ (\A i \in 1..Len(api_tools_mapping) :
               api_tools_mapping[i].name # unit.tool_name) =>
              /\ unit.ret = PyDict(<<Item(K.error, PyStr(<<"u672a", "u77e5", "u7684", "u5de5", "u5177", ":", " ">> \o unit.tool_name))>>)
              /\ unit.service = "none"
              /\ unit.http = 0
        /\ unit.caught # "none" => ErrorBeginning(unit.ret, <<"u5de5", "u5177", "u6267", "u884c", "u9519", "u8bef", ":", " ">>)

\* The exchange-rate service is called without fromCurrency and raises;
\* execute_tool returns the error dict.
C16_Witness ==
    /\ unit.op = "execute_tool"
    /\ unit.tool_name = TOOL.exchange_rate
    /\ unit.params.t = "dict"
    /\ ~HasKey(unit.params, P.fromCurrency)
    /\ unit.caught = "AttributeError"
    /\ unit.exc = "none"
    /\ ErrorBeginning(unit.ret, <<"u5de5", "u5177", "u6267", "u884c", "u9519", "u8bef", ":", " ">>)

\* A required parameter of the call is None, or an enumerated parameter is
\* outside its allowed set.
FailsParameterCheck(call) ==
    LET Missing(k) == call.args[k].t = "none"
        Outside(k, allowed) == ~(call.args[k].t = "str" /\ call.args[k].s \in allowed)
    IN  CASE call.service = "credit_card" -> Missing(1) \/ Missing(2)
          [] call.service = "exchange_rate" -> Missing(1) \/ Missing(2)
          [] call.service = "utility_bill" ->
                Missing(1) \/ Missing(2) \/ Outside(3, utilityTypeS)
          [] call.service = "user_assets" -> Missing(1) \/ Outside(2, assetTypeS)
          [] call.service = "payment_order" -> Missing(1) \/ Missing(2)
          [] OTHER -> FALSE

\* C17: every service operation checks its required parameters before any
\* request: when a required parameter is None (cardNumber/month,
\* householdId/month, customerId, merchantId/orderId,
\* fromCurrency/toCurrency) or an enumerated parameter is outside its
\* allowed set (utilityType, assetType), the operation returns a dict with
\* an 'error' key and _get is not called, so that no request is sent and
\* the payload of _get is not returned.
C17_ParametersCheckedBeforeRequest ==
    FailsParameterCheck(svc) =>
        /\ svc.exc = "none"
        /\ svc.ret.t = "dict"
        /\ HasKey(svc.ret, K.error)
        /\ ~HasKey(svc.ret, <<"s", "t", "a", "t", "u", "s">>)
        /\ svc.http = 0

\* C18: for currency codes that are strings, get_exchange_rate returns an
\* 'error' result without calling _get exactly when the upper-cased
\* fromCurrency or toCurrency is outside SUPPORTED_CURRENCIES, and the
\* source currency is the one reported when both are unsupported; for every
\* supported pair the request proceeds with the upper-cased codes.
C18_UnsupportedCurrencyRejected ==
    (svc.service = "exchange_rate" /\ svc.args[1].t = "str" /\ svc.args[2].t = "str") =>
        LET SourceOk == Upper(svc.args[1].s) \in SUPPORTED_CURRENCIES
            TargetOk == Upper(svc.args[2].s) \in SUPPORTED_CURRENCIES
            Error(message) == PyDict(<<Item(K.error, PyStr(message))>>)
        IN  /\ svc.exc = "none"
            /\ svc.ret.t = "dict"
            /\ HasKey(svc.ret, K.error) <=> ~(SourceOk /\ TargetOk)
            /\ ~SourceOk => svc.ret = Error(<<"u4e0d", "u652f", "u6301", "u7684", "u6e90", "u8d27", "u5e01", "u4ee3", "u7801", ":", " ">> \o svc.args[1].s)
            /\ (SourceOk /\ ~TargetOk) =>
                  svc.ret = Error(<<"u4e0d", "u652f", "u6301", "u7684", "u76ee", "u6807", "u8d27", "u5e01", "u4ee3", "u7801", ":", " ">> \o svc.args[2].s)
            /\ ~(SourceOk /\ TargetOk) => svc.http = 0
            /\ (SourceOk /\ TargetOk) =>
                  /\ OwnMockPayload(svc)
                  /\ DictGet(svc.ret, P.fromCurrency) = PyStr(Upper(svc.args[1].s))
                  /\ DictGet(svc.ret, P.toCurrency) = PyStr(Upper(svc.args[2].s))

\* Neither code is supported and the source currency is the one reported.
C18_Witness ==
    /\ svc.service = "exchange_rate"
    /\ svc.args[1] = PyStr(<<"x", "y", "z">>)
    /\ svc.args[2] = PyStr(<<"X", "Y", "Z">>)
    /\ svc.ret = PyDict(<<Item(K.error, PyStr(<<"u4e0d", "u652f", "u6301", "u7684", "u6e90", "u8d27", "u5e01", "u4ee3", "u7801", ":", " ", "x", "y", "z">>))>>)
    /\ svc.http = 0

\* The expression after the replacements of replace_dict.
AfterReplacements(expression) ==
    Replace(Replace(Replace(Replace(Replace(Replace(expression,
        <<" ">>, <<>>), <<"^">>, <<"*", "*">>), <<"u7684", "u5e73", "u65b9">>, <<"*", "*", "2">>),
        <<"u7684", "u7acb", "u65b9">>, <<"*", "*", "3">>), <<"u662f", "u591a", "u5c11">>, <<>>), <<"u7b49", "u4e8e", "u591a", "u5c11">>, <<>>)

\* The characters of the allow-list pattern.
AllowedCharacters ==
    {"0", "1", "2", "3", "4", "5", "6", "7", "8", "9", "+", "-", "*", "/", "(", ")",
     ".", ",", "s", "q", "r", "t", "p", "o", "w", "l", "g", "i", "n", "c", "a"}

\* C19: calculator never evaluates an expression that, after its
\* replacements, holds a character outside the allow-list: it returns
\* {'expression': ..., 'error': '表达式包含不安全字符'} before eval is reached;
\* and calculator never raises: it returns a dict, {'error': '除零错误'} for
\* a division by zero and a dict with 'error' for another failure of eval.
C19_CalculatorEvaluatesAllowedOnly ==
    unit.op = "calculator" =>
        /\ unit.ret.t = "dict"
        /\ unit.expression.t = "str" =>
              LET replaced == AfterReplacements(unit.expression.s)
              IN  (\E i \in 1..Len(replaced) : replaced[i] \notin AllowedCharacters) =>
                     /\ ~unit.evaluated
                     /\ unit.ret = PyDict(<<Item(P.expression, PyStr(replaced)),
                                            Item(K.error, PyStr(<<"u8868", "u8fbe", "u5f0f", "u5305", "u542b", "u4e0d", "u5b89", "u5168", "u5b57", "u7b26">>))>>)
        /\ (unit.evaluated /\ unit.outcome = "ZeroDivisionError") =>
              unit.ret = PyDict(<<Item(K.error, PyStr(<<"u9664", "u96f6", "u9519", "u8bef">>))>>)
        /\ (unit.evaluated /\ unit.outcome = "Exception") => HasKey(unit.ret, K.error)

\* The body of a response is a chat completion: an object whose choices are
\* a list that starts with an object whose message is an object with a
\* content that is a str.
IsCompletion(json) ==
    LET Has(value, key) == value.t = "dict" /\ HasKey(value, key)
    IN  /\ json.ok
        /\ Has(json.val, <<"c", "h", "o", "i", "c", "e", "s">>)
        /\ DictGet(json.val, <<"c", "h", "o", "i", "c", "e", "s">>).t = "list"
        /\ Len(DictGet(json.val, <<"c", "h", "o", "i", "c", "e", "s">>).items) >= 1
        /\ Has(DictGet(json.val, <<"c", "h", "o", "i", "c", "e", "s">>).items[1].v, <<"m", "e", "s", "s", "a", "g", "e">>)
        /\ Has(DictGet(DictGet(json.val, <<"c", "h", "o", "i", "c", "e", "s">>).items[1].v, <<"m", "e", "s", "s", "a", "g", "e">>), <<"c", "o", "n", "t", "e", "n", "t">>)
        /\ DictGet(DictGet(DictGet(json.val, <<"c", "h", "o", "i", "c", "e", "s">>).items[1].v, <<"m", "e", "s", "s", "a", "g", "e">>),
                   <<"c", "o", "n", "t", "e", "n", "t">>).t = "str"

\* The content of the first choice of a chat completion.
FirstChoiceContent(json) ==
    DictGet(DictGet(DictGet(json.val, <<"c", "h", "o", "i", "c", "e", "s">>).items[1].v, <<"m", "e", "s", "s", "a", "g", "e">>), <<"c", "o", "n", "t", "e", "n", "t">>).s

\* C20 as stated: call_deepseek_api never raises; for every failure of the
\* answer-LLM call (connection error, timeout, non-2xx status, malformed
\* response body) it returns '无法生成答案', and otherwise the stripped content
\* of the first choice; it makes exactly one HTTP request and does not
\* retry.
C20_FailsOnEveryNon2xx ==
    unit.op = "call_deepseek_api" =>
        LET Failure == \/ unit.response.kind # "response"
                       \/ ~(unit.response.status >= 200 /\ unit.response.status < 300)
                       \/ ~IsCompletion(unit.response.json)
        IN  /\ unit.exc = "none"
            /\ unit.posts = 1
            /\ Failure => unit.ret = FailAnswer
            /\ ~Failure => unit.ret = Strip(FirstChoiceContent(unit.response.json))

\* C20, amended: call_deepseek_api never raises; when requests.post raises
\* (connection error, timeout), when the status is from 400 to 599 or when
\* the body is malformed it returns '无法生成答案', and otherwise, whatever
\* the status, the stripped content of the first choice; it makes exactly
\* one HTTP request and does not retry.
C20_FailsOnErrorStatus ==
    unit.op = "call_deepseek_api" =>
        LET Failure == \/ unit.response.kind # "response"
                       \/ (unit.response.status >= 400 /\ unit.response.status < 600)
                       \/ ~IsCompletion(unit.response.json)
        IN  /\ unit.exc = "none"
            /\ unit.posts = 1
            /\ Failure => unit.ret = FailAnswer
            /\ ~Failure => unit.ret = Strip(FirstChoiceContent(unit.response.json))

\* The service answers 200 with an empty list of choices: the subscript
\* raises, the handler returns the fixed string, one request was made.
C20_Witness ==
    /\ unit.op = "call_deepseek_api"
    /\ unit.response.kind = "response"
    /\ unit.response.status = 200
    /\ unit.body =
        <<"{", "\"", "c", "h", "o", "i", "c", "e", "s", "\"", ":", " ", "[", "]", "}">>   \* {"choices": []}
    /\ unit.caught = "IndexError"
    /\ unit.exc = "none"
    /\ unit.ret = FailAnswer
    /\ unit.posts = 1

\* C21: in chatdb every failure inside an attempt is handled as a failed
\* attempt and never escapes the function: when the first attempt meets a
\* failing LLM request, a reply without a sql block or a failing SQL
\* execution, chatdb does not raise, the attempt is recorded as failed, the
\* handler has appended its two feedback messages to the conversation and
\* has incremented state.
C21_FailuresAreFailedAttempts ==
    (cdb.pc # "idle" /\ cdb.script # <<>> /\ cdb.script[1].kind # "sql_ok") =>
        /\ cdb.outcome # "raise"
        /\ Len(cdb.attempts) >= 1
        /\ cdb.attempts[1] = "failed"
        /\ Len(cdb.messages) >= 4
        /\ cdb.state >= 2

\* C22: handling a request never writes the shared globals: once
\* run_server serves, no step changes EMBEDDINGS, VECTORSTORE, CROSS_ENCODER
\* or TOOL_AGENT, nor the keyword and tool tables of the IntentRecognizer;
\* and under any interleaving of the requests each request that is done
\* took the answer path, and got the response, that it gets when it is
\* handled alone.
C22_RequestsDoNotInterfere ==
    /\ [][srv.serving => (srv'.globals = srv.globals /\ srv'.tables = srv.tables)]_vars
    /\ [](\A r \in 1..MaxRequests :
             srv.reqs[r].pc = "done" =>
                LET Same(response, alone) ==
                        /\ response.path = alone.path
                        /\ response.status = alone.status
                        /\ response.exc = alone.exc
                        /\ response.body = alone.body
                IN  Same(srv.reqs[r].response,
                         handle_query_request(srv.reqs[r].request, srv.reqs[r].reply,
                                              srv.reqs[r].world)))

\* A request was recognized, and while it waited another request was
\* recognized and answered on the other path; then the first was answered.
C22_Witness ==
    /\ srv.serving
    /\ srv.reqs[1].pc = "done"
    /\ srv.reqs[2].pc = "done"
    /\ srv.reqs[1].response.path = "rag"
    /\ srv.reqs[1].response.status = 200
    /\ srv.reqs[2].response.path = "api"
    /\ srv.globals.TOOL_AGENT = "ToolAgent"
    /\ srv.tables = <<database_keywords, api_tools_mapping>>
=============================================================================
